---- MODULE Spec2Model ----
(***************************************************************************)
(* A model of the VPP dispatch game's simulation core:                     *)
(*   - the per-asset state transitions (AssetModels: updateHvacResi,       *)
(*     updateBatteryResi, updateEvResi, updateFleetSite, updateCiBuilding, *)
(*     updateAsset),                                                       *)
(*   - the composable dispatch engine (DispatchStrategies:                 *)
(*     executeComposableStrategy and what it calls),                       *)
(*   - the tick orchestrator (SimulationEngine).                           *)
(*                                                                         *)
(* Numbers.  The program computes in IEEE doubles; the model computes in   *)
(* fixed point on integers and rounds every product/quotient down:         *)
(*   power        0.1 kW                      (dkW)                        *)
(*   energy       0.1 kW x one 5-minute tick  (so energy = power x ticks,  *)
(*                and the factor TIMESTEP_HOURS = 5/60 is the unit)        *)
(*   temperature  0.01 degF                                                *)
(*   fractions, probabilities, scores, SOC, fatigue: 1/1000 (permille)     *)
(* Math.random() is a nondeterministic draw from a finite set of sample    *)
(* values in permille of [0,1).                                            *)
(***************************************************************************)
EXTENDS Integers, Sequences, FiniteSets, TLC

\* ---------------------------------------------------------------- numbers

\* one (1.0) in permille fixed point
Scale == 10 * 10 * 10

Min(a, b) == IF a <= b THEN a ELSE b
Max(a, b) == IF a >= b THEN a ELSE b
Abs(a) == IF a >= 0 THEN a ELSE -a

\* x * f for a permille factor f
MulP(x, f) == (x * f) \div Scale

\* Math.random() * 2 - 1 for a draw u (permille of [0,1))
Signed(u) == 2 * u - Scale

\* ---------------------------------------------------------- AssetModels

\* applyMeasurementNoise(value, noisePct) with the draw u
applyMeasurementNoise(value, noisePct, u) ==
    MulP(value, Scale + MulP(Signed(u), noisePct))

\* updateBaselineDrift(currentDrift, rho, sigmaDrift) with the draw u
updateBaselineDrift(currentDrift, rho, sigmaDrift, u) ==
    MulP(rho, currentDrift) + MulP(Signed(u), sigmaDrift)

\* rollNoncompliance(probability) with the draw u
rollNoncompliance(probability, u) == u < probability

\* no command (null)
NoCommand == [type |-> "none"]

\* a command that is honored whatever the roll
HonoredWhateverRoll(command, config, rnd) == command.type # "none"

\* "command && !rollNoncompliance(p)": the roll is drawn only when there is
\* a command
Honored(command, config, rnd) ==
    /\ command.type # "none"
    /\ ~rollNoncompliance(config.noncompliance.probability, rnd.roll)

\* the dropped-guard of updateHvacResi: a copy of the state, no power
updateHvacResiDropped(asset) ==
    [asset |-> asset, powerDelta |-> 0, arg |-> asset]

updateHvacResiLive(asset, command, outdoorTemp, config, rnd) ==
    LET params == asset.params
        s0 == asset.state
        \* Apply command (setpoint shift)
        setpoint == IF Honored(command, config, rnd)
                    THEN params.pref_setpoint_f + command.delta_setpoint_f
                    ELSE s0.setpoint_f
        \* Thermal model
        leakage == MulP(params.alpha, outdoorTemp - s0.tin_f)
        hvacEffect == IF s0.hvac_on THEN params.beta ELSE 0
        tin == s0.tin_f + leakage + hvacEffect
        isCooling == params.mode = "cooling"
        \* Thermostat logic with deadband
        on == IF isCooling
              THEN IF tin > setpoint + params.deadband_f THEN TRUE
                   ELSE IF tin < setpoint - params.deadband_f THEN FALSE
                   ELSE s0.hvac_on
              ELSE IF tin < setpoint - params.deadband_f THEN TRUE
                   ELSE IF tin > setpoint + params.deadband_f THEN FALSE
                   ELSE s0.hvac_on
        \* Comfort violation -> drop-off
        dropped == IF isCooling /\ tin > params.comfort_max_f THEN TRUE
                   ELSE IF ~isCooling /\ tin < params.comfort_min_f THEN TRUE
                   ELSE s0.dropped
        drift == updateBaselineDrift(s0.baseline_drift, config.baseline_error.rho,
                                     config.baseline_error.sigma_drift, rnd.drift)
        actualPower == IF on THEN params.hvac_kw ELSE 0
        baselinePower == params.hvac_kw
        baselineAdjusted == MulP(baselinePower, Scale + s0.baseline_bias + drift)
        powerDelta == applyMeasurementNoise(baselineAdjusted - actualPower,
                                            config.measurement_noise.pct_uniform, rnd.noise)
        state == [s0 EXCEPT !.setpoint_f = setpoint, !.tin_f = tin, !.hvac_on = on,
                            !.dropped = dropped, !.baseline_drift = drift]
    IN [asset |-> [asset EXCEPT !.state = state],
        powerDelta |-> Max(0, powerDelta),
        arg |-> asset]

\* updateHvacResi without its "Check if dropped" guard
updateHvacResiNoGuard(asset, command, outdoorTemp, config, rnd) ==
    updateHvacResiLive(asset, command, outdoorTemp, config, rnd)

\* a home that is never dropped, whatever its temperature
updateHvacResiNeverDrops(asset, command, outdoorTemp, config, rnd) ==
    [updateHvacResiLive(asset, command, outdoorTemp, config, rnd)
        EXCEPT !.asset.state.dropped = FALSE]

updateHvacResi(asset, command, outdoorTemp, config, rnd) ==
    IF asset.state.dropped
    THEN updateHvacResiDropped(asset)
    ELSE updateHvacResiLive(asset, command, outdoorTemp, config, rnd)

\* a battery that delivers whatever power is requested
updateBatteryResiUnbounded(asset, command, config, rnd) ==
    LET requestedPower == IF ~asset.state.dropped /\ Honored(command, config, rnd)
                          THEN command.power_kw ELSE 0
    IN [asset |-> [asset EXCEPT !.state.soc =
                      asset.state.soc - (requestedPower * Scale) \div asset.params.e_kwh],
        powerDelta |-> Max(0, requestedPower),
        arg |-> asset]

updateBatteryResi(asset, command, config, rnd) ==
    IF asset.state.dropped
    THEN [asset |-> asset, powerDelta |-> 0, arg |-> asset]
    ELSE
    LET params == asset.params
        s0 == asset.state
        applied == Honored(command, config, rnd)
        requestedPower == IF applied THEN command.power_kw ELSE 0
        \* (soc - soc_reserve) * e_kwh / TIMESTEP_HOURS
        maxDischarge == Min(params.p_dis_kw, MulP(s0.soc - params.soc_reserve, params.e_kwh))
        maxCharge == Min(params.p_ch_kw, MulP(Scale - s0.soc, params.e_kwh))
        chargeRate == Min(-requestedPower, maxCharge)
        powerOutput == IF requestedPower > 0 THEN Min(requestedPower, Max(0, maxDischarge))
                       ELSE IF requestedPower < 0 THEN -chargeRate
                       ELSE 0
        \* soc -= powerOutput * TIMESTEP_HOURS / e_kwh  (charge: soc += ...)
        soc == IF requestedPower > 0 THEN s0.soc - (powerOutput * Scale) \div params.e_kwh
               ELSE IF requestedPower < 0 THEN s0.soc + (chargeRate * Scale) \div params.e_kwh
               ELSE s0.soc
        drift == updateBaselineDrift(s0.baseline_drift, config.baseline_error.rho,
                                     config.baseline_error.sigma_drift, rnd.drift)
        powerDelta == applyMeasurementNoise(IF powerOutput > 0 THEN powerOutput ELSE 0,
                                            config.measurement_noise.pct_uniform, rnd.noise)
        state == [s0 EXCEPT !.soc = soc, !.baseline_drift = drift]
    IN [asset |-> [asset EXCEPT !.state = state],
        powerDelta |-> powerDelta,
        arg |-> asset]

\* an EV that raises override_active but still follows an honoured command
updateEvResiCommanded(asset, plugged, command, currentTimestep, config, rnd) ==
    LET params == asset.params
        s0 == asset.state
        override == \/ s0.override_active
                    \/ /\ params.e_req_kwh > s0.e_kwh
                       /\ 10 * params.p_max_kw * (params.t_depart - currentTimestep)
                             <= 11 * (params.e_req_kwh - s0.e_kwh)
        chargePower == IF Honored(command, config, rnd)
                       THEN Max(0, Min(command.power_kw, params.p_max_kw))
                       ELSE params.p_max_kw
    IN [asset |-> [asset EXCEPT !.state.plugged = plugged,
                                !.state.override_active = override,
                                !.state.e_kwh = Min(s0.e_kwh + chargePower,
                                                    params.e_capacity_kwh)],
        powerDelta |-> Max(0, params.p_max_kw - chargePower),
        arg |-> asset]

\* an EV that charges at p_max_kw and never raises override_active
updateEvResiNoOverride(asset, plugged, command, currentTimestep, config, rnd) ==
    [asset |-> [asset EXCEPT !.state.plugged = plugged,
                             !.state.e_kwh = Min(asset.state.e_kwh + asset.params.p_max_kw,
                                                 asset.params.e_capacity_kwh)],
     powerDelta |-> 0,
     arg |-> asset]

\* updateEvResi for an EV that is plugged and has not reached t_depart
updateEvResiPlugged(asset, plugged, command, currentTimestep, config, rnd) ==
    LET params == asset.params
        s0 == asset.state
        \* Check deadline constraint
        remainingSteps == params.t_depart - currentTimestep
        remainingEnergy == params.e_req_kwh - s0.e_kwh
        maxPossibleEnergy == params.p_max_kw * remainingSteps
        \* maxPossibleEnergy <= remainingEnergy * 1.1
        override == IF remainingEnergy > 0 /\ 10 * maxPossibleEnergy <= 11 * remainingEnergy
                    THEN TRUE ELSE s0.override_active
        chargePower == IF override THEN params.p_max_kw
                       ELSE IF Honored(command, config, rnd)
                       THEN Max(0, Min(command.power_kw, params.p_max_kw))
                       ELSE params.p_max_kw
        chargeEnergy == chargePower
        e == Min(s0.e_kwh + chargeEnergy, params.e_capacity_kwh)
        drift == updateBaselineDrift(s0.baseline_drift, config.baseline_error.rho,
                                     config.baseline_error.sigma_drift, rnd.drift)
        baselinePower == MulP(params.p_max_kw, Scale + s0.baseline_bias + drift)
        powerDelta == applyMeasurementNoise(baselinePower - chargePower,
                                            config.measurement_noise.pct_uniform, rnd.noise)
        state == [s0 EXCEPT !.plugged = plugged, !.override_active = override,
                            !.e_kwh = e, !.baseline_drift = drift]
    IN [asset |-> [asset EXCEPT !.state = state],
        powerDelta |-> Max(0, powerDelta),
        arg |-> asset]

\* an EV that is never taken off the charger
updateEvResiNoDeparture(asset, command, currentTimestep, config, rnd) ==
    IF asset.state.dropped
    THEN [asset |-> asset, powerDelta |-> 0, arg |-> asset]
    ELSE updateEvResiPlugged(asset, TRUE, command, currentTimestep, config, rnd)

updateEvResi(asset, command, currentTimestep, config, rnd) ==
    IF asset.state.dropped
    THEN [asset |-> asset, powerDelta |-> 0, arg |-> asset]
    ELSE
    LET params == asset.params
        s0 == asset.state
        \* Handle arrival/departure
        plugged == IF currentTimestep >= params.t_arrival /\ ~s0.plugged THEN TRUE
                   ELSE s0.plugged
    IN
    IF currentTimestep >= params.t_depart
    THEN [asset |-> [asset EXCEPT !.state.plugged = FALSE, !.state.dropped = TRUE],
          powerDelta |-> 0, arg |-> asset]
    ELSE IF ~plugged
    THEN [asset |-> [asset EXCEPT !.state.plugged = plugged], powerDelta |-> 0, arg |-> asset]
    ELSE updateEvResiPlugged(asset, plugged, command, currentTimestep, config, rnd)

\* the sum of f[i] over i in 1..n
RECURSIVE SumTo(_, _)
SumTo(f, n) == IF n = 0 THEN 0 ELSE f[n] + SumTo(f, n - 1)

\* a fleet site that gives every vehicle in need its p_max_kw, whatever the
\* site cap
updateFleetSiteUncapped(asset, command, currentTimestep, config, rnd) ==
    LET vehicles == asset.params.vehicles
        s0 == asset.state
        vs == [i \in 1..Len(vehicles) |->
                 LET plugged == /\ currentTimestep < vehicles[i].t_depart
                                /\ (s0.vehicle_state[i].plugged
                                    \/ currentTimestep >= vehicles[i].t_arrival)
                 IN [e_kwh |-> IF plugged /\ s0.vehicle_state[i].e_kwh < vehicles[i].e_req_kwh
                               THEN Min(s0.vehicle_state[i].e_kwh + vehicles[i].p_max_kw,
                                        vehicles[i].e_capacity_kwh)
                               ELSE s0.vehicle_state[i].e_kwh,
                     plugged |-> plugged]]
    IN [asset |-> [asset EXCEPT !.state.vehicle_state = vs],
        powerDelta |-> 0,
        arg |-> [asset EXCEPT !.state.vehicle_state = vs]]

updateFleetSite(asset, command, currentTimestep, config, rnd) ==
    IF asset.state.dropped
    THEN [asset |-> asset, powerDelta |-> 0, arg |-> asset]
    ELSE
    LET params == asset.params
        s0 == asset.state
        vehicles == params.vehicles
        n == Len(vehicles)
        \* Update vehicle plug status (in place, on the vehicle_state objects
        \* the argument shares with the copy)
        plug == [i \in 1..n |->
                   LET p1 == IF currentTimestep >= vehicles[i].t_arrival
                                 /\ ~s0.vehicle_state[i].plugged
                             THEN TRUE ELSE s0.vehicle_state[i].plugged
                   IN IF currentTimestep >= vehicles[i].t_depart THEN FALSE ELSE p1]
        \* Determine site power cap
        sitePowerCap == IF Honored(command, config, rnd)
                        THEN Max(0, Min(command.site_power_cap_kw, params.u_site_max_kw))
                        ELSE params.u_site_max_kw
        \* pluggedVehicles
        needy == [i \in 1..n |-> /\ plug[i]
                                 /\ s0.vehicle_state[i].e_kwh < vehicles[i].e_req_kwh
                                 /\ currentTimestep < vehicles[i].t_depart]
        count == Cardinality({i \in 1..n : needy[i]})
        \* urgency = remainingEnergy / remainingTime, in permille of a dkW
        urgency == [i \in 1..n |->
                      IF needy[i]
                      THEN ((vehicles[i].e_req_kwh - s0.vehicle_state[i].e_kwh) * Scale)
                             \div Max(1, vehicles[i].t_depart - currentTimestep)
                      ELSE 0]
        totalUrgency == SumTo(urgency, n)
        \* Allocate power proportionally
        allocatedPower == [i \in 1..n |->
                      IF needy[i]
                      THEN Min(vehicles[i].p_max_kw,
                               IF totalUrgency > 0
                               THEN (urgency[i] * sitePowerCap) \div totalUrgency
                               ELSE sitePowerCap \div count)
                      ELSE 0]
        vs == [i \in 1..n |->
                 [e_kwh |-> IF needy[i]
                            THEN Min(s0.vehicle_state[i].e_kwh + allocatedPower[i],
                                     vehicles[i].e_capacity_kwh)
                            ELSE s0.vehicle_state[i].e_kwh,
                  plugged |-> plug[i]]]
        actualSitePower == SumTo(allocatedPower, n)
        drift == updateBaselineDrift(s0.baseline_drift, config.baseline_error.rho,
                                     config.baseline_error.sigma_drift, rnd.drift)
        \* u_site_max_kw * 0.7 * (1 + bias + drift)
        baselinePower == MulP((params.u_site_max_kw * 7) \div 10,
                              Scale + s0.baseline_bias + drift)
        powerDelta == applyMeasurementNoise(baselinePower - actualSitePower,
                                            config.measurement_noise.pct_uniform, rnd.noise)
        state == [s0 EXCEPT !.vehicle_state = vs, !.baseline_drift = drift]
    IN [asset |-> [asset EXCEPT !.state = state],
        powerDelta |-> Max(0, powerDelta),
        \* the argument after the call: its state object is untouched, the
        \* vehicle_state records it references were written to
        arg |-> [asset EXCEPT !.state.vehicle_state = vs]]

\* Math.exp(-x) for x >= 0 in permille: 1 / (1 + x + x^2/2 + x^3/6), the
\* cubic truncation of e^x inverted (positive, decreasing, 1 at 0)
ExpNeg(x) ==
    (Scale * Scale) \div
        (Scale + x + (x * x) \div (2 * Scale) + (x * x * x) \div (6 * Scale * Scale))

\* minutes in a day; the hour of a tick is compared in minutes
DayMinutes == 24 * 60

\* TIMESTEP_MINUTES
TIMESTEP_MINUTES == 5

\* isBusinessHours of updateCiBuilding
isBusinessHours(params, currentTimestep, startHour) ==
    LET currentMinute == (startHour * 60 + currentTimestep * TIMESTEP_MINUTES) % DayMinutes
    IN /\ currentMinute >= params.business_hours.start_hour * 60
       /\ currentMinute < params.business_hours.end_hour * 60

\* the fatigue above which a C&I building drops (fatigue > 2)
\* a drop-off threshold of 3 instead of 2
FatigueLimitRaised == 3 * Scale

FatigueLimit == 2 * Scale

\* updateCiBuilding switching the process whenever an honoured command asks,
\* whatever the hour and the toggles already used
updateCiBuildingUngated(asset, command, currentTimestep, startHour, config, rnd) ==
    IF asset.state.dropped
    THEN [asset |-> asset, powerDelta |-> 0, arg |-> asset]
    ELSE
    LET params == asset.params
        s0 == asset.state
        applied == Honored(command, config, rnd)
        \* Default to no shed, process as it is
        targetHvacShed == IF applied THEN command.hvac_shed_kw ELSE 0
        targetProcessOn == IF applied THEN command.process_on ELSE s0.process_on
        \* HVAC shed with fatigue
        availableCapacity == MulP(params.smax_hvac_kw, ExpNeg(MulP(params.fatigue_k, s0.fatigue)))
        actualShed == Min(targetHvacShed, availableCapacity)
        shedRatio == (actualShed * Scale) \div params.smax_hvac_kw
        fatigue == Max(0, s0.fatigue + MulP(params.fatigue_a, shedRatio)
                                     - MulP(params.fatigue_b, Scale - shedRatio))
    IN
    IF fatigue > FatigueLimit
    THEN [asset |-> [asset EXCEPT !.state.hvac_shed_kw = actualShed,
                                  !.state.fatigue = fatigue,
                                  !.state.dropped = TRUE],
          powerDelta |-> 0, arg |-> asset]
    ELSE
    LET \* Process load curtailment
        toggles == targetProcessOn # s0.process_on
        process_on == IF toggles THEN targetProcessOn ELSE s0.process_on
        used == IF toggles THEN s0.process_toggles_used + 1 ELSE s0.process_toggles_used
        processLoadDelta == IF ~process_on THEN params.process_load_kw ELSE 0
        drift == updateBaselineDrift(s0.baseline_drift, config.baseline_error.rho,
                                     config.baseline_error.sigma_drift, rnd.drift)
        powerDelta == applyMeasurementNoise(actualShed + processLoadDelta,
                                            config.measurement_noise.pct_uniform, rnd.noise)
        state == [s0 EXCEPT !.hvac_shed_kw = actualShed, !.fatigue = fatigue,
                            !.process_on = process_on, !.process_toggles_used = used,
                            !.baseline_drift = drift]
    IN [asset |-> [asset EXCEPT !.state = state],
        powerDelta |-> Max(0, powerDelta),
        arg |-> asset]

updateCiBuilding(asset, command, currentTimestep, startHour, config, rnd) ==
    IF asset.state.dropped
    THEN [asset |-> asset, powerDelta |-> 0, arg |-> asset]
    ELSE
    LET params == asset.params
        s0 == asset.state
        applied == Honored(command, config, rnd)
        \* Default to no shed, process as it is
        targetHvacShed == IF applied THEN command.hvac_shed_kw ELSE 0
        targetProcessOn == IF applied THEN command.process_on ELSE s0.process_on
        \* HVAC shed with fatigue
        availableCapacity == MulP(params.smax_hvac_kw, ExpNeg(MulP(params.fatigue_k, s0.fatigue)))
        actualShed == Min(targetHvacShed, availableCapacity)
        shedRatio == (actualShed * Scale) \div params.smax_hvac_kw
        fatigue == Max(0, s0.fatigue + MulP(params.fatigue_a, shedRatio)
                                     - MulP(params.fatigue_b, Scale - shedRatio))
    IN
    IF fatigue > FatigueLimit
    THEN [asset |-> [asset EXCEPT !.state.hvac_shed_kw = actualShed,
                                  !.state.fatigue = fatigue,
                                  !.state.dropped = TRUE],
          powerDelta |-> 0, arg |-> asset]
    ELSE
    LET \* Process load curtailment
        toggles == /\ targetProcessOn # s0.process_on
                   /\ s0.process_toggles_used < params.max_process_toggles
                   /\ (~isBusinessHours(params, currentTimestep, startHour)
                       \/ s0.process_toggles_used > 0)
        process_on == IF toggles THEN targetProcessOn ELSE s0.process_on
        used == IF toggles THEN s0.process_toggles_used + 1 ELSE s0.process_toggles_used
        processLoadDelta == IF ~process_on THEN params.process_load_kw ELSE 0
        drift == updateBaselineDrift(s0.baseline_drift, config.baseline_error.rho,
                                     config.baseline_error.sigma_drift, rnd.drift)
        powerDelta == applyMeasurementNoise(actualShed + processLoadDelta,
                                            config.measurement_noise.pct_uniform, rnd.noise)
        state == [s0 EXCEPT !.hvac_shed_kw = actualShed, !.fatigue = fatigue,
                            !.process_on = process_on, !.process_toggles_used = used,
                            !.baseline_drift = drift]
    IN [asset |-> [asset EXCEPT !.state = state],
        powerDelta |-> Max(0, powerDelta),
        arg |-> asset]

\* Unified Update Function
updateAsset(asset, command, currentTimestep, outdoorTemp, startHour, config, rnd) ==
    CASE asset.type = "hvac_resi" ->
           updateHvacResi(asset, command, outdoorTemp, config, rnd)
      [] asset.type = "battery_resi" ->
           updateBatteryResi(asset, command, config, rnd)
      [] asset.type = "ev_resi" ->
           updateEvResi(asset, command, currentTimestep, config, rnd)
      [] asset.type = "fleet_site" ->
           updateFleetSite(asset, command, currentTimestep, config, rnd)
      [] asset.type = "ci_building" ->
           updateCiBuilding(asset, command, currentTimestep, startHour, config, rnd)
      [] OTHER -> [asset |-> asset, powerDelta |-> 0, arg |-> asset]

\* ---------------------------------------------------- DispatchStrategies

\* energy units in one kWh: 0.1 kW x 12 ticks an hour
EnergyPerKwh == 10 * (60 \div TIMESTEP_MINUTES)

\* RISK_POSTURE_PARAMS (permille)
RISK_POSTURE_PARAMS ==
    [risk_averse |-> [reserveMargin |-> 400, rampUpSpeed |-> 300, conservationFactor |-> 700],
     neutral |-> [reserveMargin |-> 250, rampUpSpeed |-> 500, conservationFactor |-> 500],
     opportunity_seeking |->
                [reserveMargin |-> 150, rampUpSpeed |-> 600, conservationFactor |-> 300],
     deadline_aware |-> [reserveMargin |-> 350, rampUpSpeed |-> 250, conservationFactor |-> 600]]

getRiskParams(riskPosture) == RISK_POSTURE_PARAMS[riskPosture]

\* context.dispatchIntensity[asset.type] ?? 50
DefaultIntensity == 50

intensityOf(context, asset) ==
    IF asset.type \in DOMAIN context.dispatchIntensity
    THEN context.dispatchIntensity[asset.type]
    ELSE DefaultIntensity

\* context.assetPerformanceScores.get(asset.id) ?? 0.5
performanceScore(context, asset) ==
    IF asset.id \in DOMAIN context.assetPerformanceScores
    THEN context.assetPerformanceScores[asset.id]
    ELSE Scale \div 2

\* Get available capacity for an asset at current timestep (dkW)
getAvailableCapacity(asset, timestep) ==
    CASE asset.type = "hvac_resi" ->
           IF asset.state.dropped THEN 0 ELSE asset.params.hvac_kw
      [] asset.type = "battery_resi" ->
           IF asset.state.dropped THEN 0
           ELSE Min(asset.params.p_dis_kw,
                    MulP(asset.state.soc - asset.params.soc_reserve, asset.params.e_kwh))
      [] asset.type = "ev_resi" ->
           IF asset.state.dropped \/ asset.state.override_active \/ ~asset.state.plugged
           THEN 0 ELSE asset.params.p_max_kw
      [] asset.type = "fleet_site" ->
           IF asset.state.dropped THEN 0 ELSE MulP(asset.params.u_site_max_kw, 700)
      [] asset.type = "ci_building" ->
           IF asset.state.dropped THEN 0
           ELSE MulP(asset.params.smax_hvac_kw,
                     ExpNeg(MulP(asset.params.fatigue_k, asset.state.fatigue)))
                + (IF asset.state.process_on THEN asset.params.process_load_kw ELSE 0)
      [] OTHER -> 0

\* the HVAC comfort margin (0.01 degF)
tempMargin(hvac) ==
    IF hvac.params.mode = "cooling"
    THEN hvac.params.comfort_max_f - hvac.state.tin_f
    ELSE hvac.state.tin_f - hvac.params.comfort_min_f

\* Estimate drop-off risk for an asset (permille)
estimateDropRisk(asset, riskParams) ==
    CASE asset.type = "hvac_resi" ->
           Max(0, Min(Scale, MulP(Scale - (tempMargin(asset) * 10) \div 4,
                                  Scale - riskParams.conservationFactor \div 2)))
      [] asset.type = "battery_resi" ->
           Max(0, Min(Scale, (Scale - (asset.state.soc - asset.params.soc_reserve)) \div 2))
      [] asset.type = "ev_resi" ->
           IF asset.state.override_active THEN Scale
           ELSE LET energyNeeded == asset.params.e_req_kwh - asset.state.e_kwh
                IN IF energyNeeded > 20 * EnergyPerKwh THEN 600
                   ELSE IF energyNeeded > 10 * EnergyPerKwh THEN 300
                   ELSE 100
      [] asset.type = "ci_building" ->
           Min(Scale, MulP(asset.state.fatigue, 800))
      [] OTHER -> 200

\* Calculate comfort cost for dispatching an asset (permille of a cost unit)
calculateComfortCost(asset) ==
    CASE asset.type = "hvac_resi" -> Max(0, 4 * Scale - tempMargin(asset) * 10)
      [] asset.type = "ev_resi" ->
           ((asset.params.e_req_kwh - asset.state.e_kwh) * Scale)
              \div (EnergyPerKwh * Max(1, asset.params.t_depart - asset.params.t_arrival))
      [] asset.type = "ci_building" -> asset.state.fatigue * 2
      [] OTHER -> Scale \div 2

\* Calculate SOC/headroom buffer for an asset, in thousandths of its natural
\* unit (kWh, degF or kW)
calculateHeadroom(asset) ==
    CASE asset.type = "battery_resi" ->
           ((asset.state.soc - asset.params.soc_reserve) * asset.params.e_kwh)
              \div EnergyPerKwh
      [] asset.type = "ev_resi" ->
           IF ~asset.state.plugged THEN 0
           ELSE ((asset.state.e_kwh - asset.params.e_req_kwh \div 5) * Scale)
                   \div EnergyPerKwh
      [] asset.type = "hvac_resi" -> tempMargin(asset) * 10
      [] asset.type = "ci_building" ->
           ((Scale - asset.state.fatigue) * asset.params.smax_hvac_kw) \div 10
      [] asset.type = "fleet_site" -> asset.params.u_site_max_kw * 50
      [] OTHER -> 0

\* Math.pow(x, 0.5) on permille: the largest r with r * r <= x * Scale
SqrtP(x) == CHOOSE r \in 0..Scale : r * r <= x * Scale /\ (r + 1) * (r + 1) > x * Scale

\* the fraction of the event already run (permille)
progressOf(context) == (context.currentTimestep * Scale) \div context.totalTimesteps

calculateRampUpPercentage(context) ==
    LET riskPosture == context.strategyConfig.riskPosture
        progress == progressOf(context)
        initialPct == getRiskParams(riskPosture).rampUpSpeed
    IN IF riskPosture = "deadline_aware"
       THEN Min(Scale, initialPct + MulP(Scale - initialPct, SqrtP(Min(Scale, progress))))
       ELSE LET rampDuration == IF riskPosture = "risk_averse" THEN 700
                                ELSE IF riskPosture = "opportunity_seeking" THEN 400
                                ELSE 500
                rampProgress == Min(Scale, (progress * Scale) \div rampDuration)
            IN Min(Scale, initialPct + MulP(Scale - initialPct, rampProgress))

\* the weight 1 / (index + 1) of the ordering at position i (1-based), in
\* sixtieths, exact for up to five orderings
WeightUnit == 2 * 2 * 3 * 5
orderingWeight(i) == WeightUnit \div i

\* the score one ordering gives an asset (permille)
orderScore(ordering, asset, context) ==
    CASE ordering = "batteries_first" ->
           IF asset.type = "battery_resi" THEN Scale ELSE 300
      [] ordering = "hvac_first" ->
           IF asset.type = "hvac_resi" THEN Scale ELSE 300
      [] ordering = "high_load_reduction_first" ->
           IF asset.type \in {"ev_resi", "fleet_site"} THEN Scale ELSE 300
      [] ordering = "balanced_weighting" -> 500
      [] ordering = "highest_trust_score" -> performanceScore(context, asset)
      [] ordering = "lowest_variance" ->
           Scale - estimateDropRisk(asset, getRiskParams(context.strategyConfig.riskPosture))
      [] ordering = "best_historical_delivery" -> performanceScore(context, asset)
      [] ordering = "highest_headroom" ->
           LET headroom == calculateHeadroom(asset)
               capacity == getAvailableCapacity(asset, context.currentTimestep)
           IN IF capacity > 0 THEN Min(Scale, (headroom * 10) \div capacity) ELSE 0
      [] ordering = "lowest_marginal_comfort_cost" ->
           Scale - Min(Scale, calculateComfortCost(asset) \div 5)
      [] ordering = "highest_soc_buffer" ->
           IF asset.type = "battery_resi" THEN asset.state.soc
           ELSE IF asset.type = "ev_resi" /\ asset.state.plugged
           THEN (asset.state.e_kwh * Scale) \div asset.params.e_capacity_kwh
           ELSE 500
      [] ordering = "least_recently_dispatched" ->
           IF asset.id \in context.previouslyDispatchedAssetIds THEN 200 ELSE 800
      [] ordering = "round_robin" -> (asset.id % 100) * 10
      [] ordering = "fatigue_balanced" ->
           IF asset.type = "ci_building" THEN Scale - asset.state.fatigue ELSE 800
      [] OTHER -> 0

RECURSIVE weightedScores(_, _, _, _)
weightedScores(orderings, i, asset, context) ==
    IF i > Len(orderings) THEN [total |-> 0, weights |-> 0]
    ELSE LET rest == weightedScores(orderings, i + 1, asset, context)
         IN [total |-> orderScore(orderings[i], asset, context) * orderingWeight(i)
                         + rest.total,
             weights |-> orderingWeight(i) + rest.weights]

\* Calculate composite ordering score based on selection orderings (permille)
calculateOrderingScore(asset, orderings, context) ==
    LET intensityMultiplier == Scale \div 2 + intensityOf(context, asset) * 10
        sums == weightedScores(orderings, 1, asset, context)
    IN IF sums.weights = 0
       THEN -1      \* 0 / 0: NaN for every asset, all tie
       ELSE MulP(sums.total \div sums.weights, intensityMultiplier)

\* Array.prototype.sort by descending key k (k[i] the key of s[i]); the sort
\* is stable: equal keys keep their order
SortDescBy(s, k) ==
    LET n == Len(s)
        rank == [i \in 1..n |->
                   1 + Cardinality({j \in 1..n : k[j] > k[i] \/ (k[j] = k[i] /\ j < i)})]
    IN [p \in 1..n |-> s[CHOOSE i \in 1..n : rank[i] = p]]

\* scoredAssets.sort((a, b) => b.score - a.score)
sortByScore(scoredAssets) ==
    SortDescBy(scoredAssets, [i \in 1..Len(scoredAssets) |-> scoredAssets[i].score])

\* the ScoredAsset of an asset
scoreAsset(a, context) ==
    [asset |-> a,
     capacity |-> getAvailableCapacity(a, context.currentTimestep),
     score |-> calculateOrderingScore(a, context.strategyConfig.selectionOrderings, context)]

\* assets.map(a => ScoredAsset)
scoreAssets(assets, context) ==
    [i \in 1..Len(assets) |-> scoreAsset(assets[i], context)]

\* every asset scored, nothing filtered out
scoreAllAssets(context) == scoreAssets(context.assets, context)

\* the scored assets without the capacity filter
scoreUndroppedAssets(context) ==
    scoreAssets(SelectSeq(context.assets, LAMBDA a : ~a.state.dropped), context)

\* Score all available assets: not dropped, capacity above zero
scoreAvailableAssets(context) ==
    SelectSeq(scoreAssets(SelectSeq(context.assets, LAMBDA a : ~a.state.dropped), context),
              LAMBDA sa : sa.capacity > 0)

\* applyRampUp without continuity: the best up to the target count
applyRampUpNoContinuity(scoredAssets, rampPercentage, context) ==
    SubSeq(scoredAssets, 1,
           Min(Len(scoredAssets),
               Max(1, (Len(scoredAssets) * rampPercentage + Scale - 1) \div Scale)))

\* Apply ramp-up: the previously dispatched, then the best of the others up
\* to the target count
applyRampUp(scoredAssets, rampPercentage, context) ==
    LET previouslyDispatched ==
            SelectSeq(scoredAssets,
                      LAMBDA sa : sa.asset.id \in context.previouslyDispatchedAssetIds)
        notPreviouslyDispatched ==
            SelectSeq(scoredAssets,
                      LAMBDA sa : sa.asset.id \notin context.previouslyDispatchedAssetIds)
        targetCount == Max(1, (Len(scoredAssets) * rampPercentage + Scale - 1) \div Scale)
    IN previouslyDispatched
       \o SubSeq(notPreviouslyDispatched, 1,
                 Min(Len(notPreviouslyDispatched),
                     Max(0, targetCount - Len(previouslyDispatched))))

\* Select and order assets for dispatch
selectAndOrderAssets(context) ==
    applyRampUp(sortByScore(scoreAvailableAssets(context)),
                calculateRampUpPercentage(context), context)

\* Math.sin(t * 0.5) for t = 0, 1, 2, ... (permille)
SinHalf(t) ==
    << 0, 479, 841, 997, 909, 598, 141, -351, -757, -978, -959, -706, -279 >>[t + 1]

adjustTargetForObjective(context, baseTarget) ==
    LET riskParams == getRiskParams(context.strategyConfig.riskPosture)
        objective == context.strategyConfig.objective
    IN CASE objective = "capacity" ->
              MulP(baseTarget, Scale + riskParams.reserveMargin \div 2)
         [] objective = "risk_minimization" ->
              MulP(baseTarget, Scale + riskParams.reserveMargin)
         [] objective = "efficiency" -> baseTarget
         [] objective = "regret_minimization" ->
              MulP(baseTarget, Scale + (3 * riskParams.reserveMargin) \div 2)
         [] objective = "learning_oriented" ->
              MulP(baseTarget, Scale + SinHalf(context.currentTimestep) \div 10)
         [] OTHER -> baseTarget

\* Math.round of thousandths to a whole number
Round(m) == (m + Scale \div 2) \div Scale

\* createDispatchCommand with the HVAC shift left unrounded (0.01 degF)
createDispatchCommandUnrounded(asset, targetKw, riskParams, intensity) ==
    LET intensityFactor == intensity * 10
        conservationFactor == MulP(riskParams.conservationFactor,
                                   Scale + Scale \div 2 - intensityFactor)
        maxShift == MulP(Scale + 2 * intensityFactor,
                         Scale - (3 * conservationFactor) \div 10)
    IN IF asset.type = "hvac_resi"
       THEN LET shift == Min(maxShift, (targetKw * 2 * Scale) \div asset.params.hvac_kw)
            IN << [asset_id |-> asset.id,
                   command |-> [type |-> "hvac",
                                delta_setpoint_f |->
                                    (IF asset.params.mode = "cooling" THEN shift ELSE -shift)
                                    \div 10]] >>
       ELSE << >>

\* createDispatchCommand with the battery's power not floored at zero
createDispatchCommandUnfloored(asset, targetKw, riskParams, intensity) ==
    LET conservationFactor == MulP(riskParams.conservationFactor,
                                   Scale + Scale \div 2 - intensity * 10)
    IN IF asset.type = "battery_resi"
       THEN LET effectiveReserve == MulP(asset.params.soc_reserve,
                                         Scale + (3 * conservationFactor) \div 10)
                maxPower == Min(asset.params.p_dis_kw,
                                MulP(asset.state.soc - effectiveReserve, asset.params.e_kwh))
            IN << [asset_id |-> asset.id,
                   command |-> [type |-> "battery", power_kw |-> Min(targetKw, maxPower)]] >>
       ELSE << >>

\* createDispatchCommand: <<>> for null, <<command>> otherwise
createDispatchCommand(asset, targetKw, riskParams, intensity) ==
    LET intensityFactor == intensity * 10
        conservationFactor == MulP(riskParams.conservationFactor,
                                   Scale + Scale \div 2 - intensityFactor)
        \* 1 - conservationFactor * 0.3
        keep == Scale - (3 * conservationFactor) \div 10
    IN CASE asset.type = "battery_resi" ->
              LET effectiveReserve == MulP(asset.params.soc_reserve,
                                           Scale + (3 * conservationFactor) \div 10)
                  availSoc == asset.state.soc - effectiveReserve
                  maxPower == Min(asset.params.p_dis_kw, MulP(availSoc, asset.params.e_kwh))
                  power == Min(targetKw, maxPower)
              IN << [asset_id |-> asset.id,
                     command |-> [type |-> "battery", power_kw |-> Max(0, power)]] >>
         [] asset.type = "hvac_resi" ->
              LET \* degF in thousandths
                  maxShift == MulP(Scale + 2 * intensityFactor, keep)
                  wanted == (targetKw * 2 * Scale) \div asset.params.hvac_kw
                  shift == IF asset.params.mode = "cooling"
                           THEN Min(maxShift, wanted)
                           ELSE -Min(maxShift, wanted)
              IN << [asset_id |-> asset.id,
                     command |-> [type |-> "hvac", delta_setpoint_f |-> Round(shift) * 100]] >>
         [] asset.type = "ev_resi" ->
              IF ~asset.state.plugged \/ asset.state.override_active THEN <<>>
              ELSE LET maxReduction == MulP(asset.params.p_max_kw,
                                            Scale \div 2 + intensityFactor \div 2)
                       reduction == Min(maxReduction, targetKw)
                       newChargeRate == asset.params.p_max_kw - reduction
                   IN << [asset_id |-> asset.id,
                          command |-> [type |-> "ev", power_kw |-> Max(0, newChargeRate)]] >>
         [] asset.type = "fleet_site" ->
              LET maxReduction == MulP(asset.params.u_site_max_kw,
                                       400 + (4 * intensityFactor) \div 10)
                  reduction == Min(maxReduction, targetKw)
                  capPower == asset.params.u_site_max_kw - reduction
              IN << [asset_id |-> asset.id,
                     command |-> [type |-> "fleet",
                                  site_power_cap_kw |-> Max(0, capPower)]] >>
         [] asset.type = "ci_building" ->
              LET availableHvac == MulP(asset.params.smax_hvac_kw,
                                        ExpNeg(MulP(asset.params.fatigue_k, asset.state.fatigue)))
                  shedAmount == MulP(Min(availableHvac, targetKw), keep)
                  remainingForProcess == targetKw - shedAmount
                  curtailProcess == /\ remainingForProcess > 0
                                    /\ asset.state.process_on
                                    /\ intensityFactor > 400
              IN << [asset_id |-> asset.id,
                     command |-> [type |-> "ci_building", hvac_shed_kw |-> shedAmount,
                                  process_on |-> ~curtailProcess]] >>
         [] OTHER -> <<>>

getCommandContribution(asset, command, riskParams) ==
    CASE asset.type = "battery_resi" -> command.command.power_kw
      [] asset.type = "hvac_resi" ->
           (asset.params.hvac_kw * Abs(command.command.delta_setpoint_f)) \div 200
      [] asset.type = "ev_resi" -> asset.params.p_max_kw - command.command.power_kw
      [] asset.type = "fleet_site" ->
           asset.params.u_site_max_kw - command.command.site_power_cap_kw
      [] asset.type = "ci_building" ->
           command.command.hvac_shed_kw
           + (IF ~command.command.process_on /\ asset.state.process_on
              THEN asset.params.process_load_kw ELSE 0)
      [] OTHER -> 0

\* the rest of dispatchToTarget's loop once the asset at position i has its
\* command (<<>>: none, nothing pushed, the target as it was)
RECURSIVE dispatchFrom(_, _, _, _, _)
pushCommand(command, assets, i, remainingTarget, context, riskParams) ==
    IF command = << >>
    THEN dispatchFrom(assets, i + 1, remainingTarget, context, riskParams)
    ELSE command \o dispatchFrom(assets, i + 1,
             remainingTarget - getCommandContribution(assets[i].asset, command[1], riskParams),
             context, riskParams)

\* the loop of dispatchToTarget from position i of the list
dispatchFrom(assets, i, remainingTarget, context, riskParams) ==
    IF i > Len(assets) \/ remainingTarget <= 0 THEN << >>
    ELSE LET intensity == intensityOf(context, assets[i].asset)
             capacityMultiplier == Scale \div 2 + (intensity * 10) \div 2
             effectiveCapacity == MulP(assets[i].capacity, capacityMultiplier)
             dispatchAmount == Min(effectiveCapacity, remainingTarget)
         IN pushCommand(createDispatchCommand(assets[i].asset, dispatchAmount, riskParams,
                                              intensity),
                        assets, i, remainingTarget, context, riskParams)

dispatchToTarget(assets, targetKw, context, riskParams) ==
    dispatchFrom(assets, 1, targetKw, context, riskParams)

RECURSIVE maintainFrom(_, _, _)
maintainFrom(context, assets, i) ==
    IF i > Len(assets) THEN << >>
    ELSE (IF assets[i].asset.id \in context.previouslyDispatchedAssetIds
          THEN createDispatchCommand(
                   assets[i].asset,
                   getAvailableCapacity(assets[i].asset, context.currentTimestep) \div 2,
                   getRiskParams(context.strategyConfig.riskPosture), DefaultIntensity)
          ELSE << >>)
         \o maintainFrom(context, assets, i + 1)

maintainPreviousDispatch(context, assets) == maintainFrom(context, assets, 1)

\* maintainPreviousDispatch or dispatchToTarget on the selected assets
maintainOrDispatch(selectedAssets, maintain, effectiveTarget, context, riskParams) ==
    IF maintain
    THEN maintainPreviousDispatch(context, selectedAssets)
    ELSE dispatchToTarget(selectedAssets, effectiveTarget, context, riskParams)

\* --- Deterministic Policy ---
deterministicDispatch(context, rnd) ==
    LET subtype == context.strategyConfig.frameworkSubtype
        t == context.currentTimestep
        total == context.totalTimesteps
        \* State machine: progress < 0.15 ramp, progress > 0.85 recovery
        factor ==
            IF subtype = "state_machine"
            THEN IF 20 * t < 3 * total THEN 700
                 ELSE IF 20 * t > 17 * total
                 THEN 800 + (200 * (Scale - progressOf(context))) \div 150
                 ELSE Scale
            ELSE Scale
        \* Threshold triggered: deviation < targetKw * 0.05
        maintain == /\ subtype = "threshold_triggered"
                    /\ context.previousAchievedKw # << >>
                    /\ 20 * (context.targetKw - context.previousAchievedKw[1])
                          < context.targetKw
    IN maintainOrDispatch(selectAndOrderAssets(context), maintain,
                          MulP(adjustTargetForObjective(context, context.targetKw), factor),
                          context, getRiskParams(context.strategyConfig.riskPosture))

\* Re-sort based on greedy subtype
greedySort(selectedAssets, subtype, riskParams) ==
    LET n == Len(selectedAssets)
    IN CASE subtype = "max_capacity_now" ->
              SortDescBy(selectedAssets, [i \in 1..n |-> selectedAssets[i].capacity])
         [] subtype = "min_risk_now" ->
              SortDescBy(selectedAssets, [i \in 1..n |->
                  -estimateDropRisk(selectedAssets[i].asset, riskParams)])
         [] subtype = "best_efficiency_now" ->
              SortDescBy(selectedAssets, [i \in 1..n |->
                  (selectedAssets[i].capacity * Scale * Scale)
                     \div Max(Scale \div 10, calculateComfortCost(selectedAssets[i].asset))])
         [] OTHER -> selectedAssets

\* --- Greedy/Myopic ---
greedyDispatch(context, rnd) ==
    dispatchToTarget(
        greedySort(selectAndOrderAssets(context), context.strategyConfig.frameworkSubtype,
                   getRiskParams(context.strategyConfig.riskPosture)),
        adjustTargetForObjective(context, context.targetKw),
        context, getRiskParams(context.strategyConfig.riskPosture))

\* the samples of stochasticDispatch
NumSamples == 10

\* the capacity one Monte-Carlo sample adds up: pattern "all" complies
\* everywhere, "none" nowhere, "first" only at the head of the list, "rest"
\* everywhere but there
RECURSIVE sampleCapacity(_, _, _)
sampleCapacity(selectedAssets, pattern, i) ==
    IF i > Len(selectedAssets) THEN 0
    ELSE (IF \/ pattern = "all"
             \/ (pattern = "first" /\ i = 1)
             \/ (pattern = "rest" /\ i > 1)
          THEN selectedAssets[i].capacity ELSE 0)
         + sampleCapacity(selectedAssets, pattern, i + 1)

\* outcomes.sort((a, b) => a - b)[Math.floor(outcomes.length / 2)]
medianOf(outcomes) ==
    SortDescBy(outcomes, [s \in 1..Len(outcomes) |-> -outcomes[s]])[Len(outcomes) \div 2 + 1]

\* targetMultiplier of the monte_carlo_weighted subtype (permille)
monteCarloMultiplier(medianCapacity, targetKw) ==
    IF medianCapacity > 0 THEN (targetKw * Scale) \div medianCapacity ELSE Scale

\* targetMultiplier of stochasticDispatch (permille)
targetMultiplier(selectedAssets, context, rnd) ==
    LET subtype == context.strategyConfig.frameworkSubtype
        probability == context.config.noncompliance.probability
        lookaheadSteps == Min(6, context.totalTimesteps - context.currentTimestep)
        draws == NumSamples * Max(0, lookaheadSteps)
        \* expectedDropoffs * numSamples: how many of the draws fell below the
        \* noncompliance probability
        dropoffs == IF probability <= 0 THEN 0
                    ELSE IF probability >= Scale THEN draws
                    ELSE Min(rnd.dropoffs, draws)
    IN CASE subtype = "expected_value" ->
              \* 1 + (expectedDropoffs / selectedAssets.length) * 0.5; with no
              \* asset selected the value is not a number and nothing is dispatched
              IF Len(selectedAssets) = 0 THEN Scale
              ELSE Scale + (dropoffs * Scale) \div (NumSamples * Len(selectedAssets) * 2)
         [] subtype = "chance_constrained" ->
              Scale + (3 * getRiskParams(context.strategyConfig.riskPosture).reserveMargin)
                         \div 2
         [] subtype = "monte_carlo_weighted" ->
              monteCarloMultiplier(
                  medianOf([s \in 1..NumSamples |->
                              sampleCapacity(selectedAssets, rnd.samples[s], 1)]),
                  context.targetKw)
         [] OTHER -> Scale

\* dispatchToTarget on the selected assets at the multiplied target
dispatchStochastic(selectedAssets, context, rnd) ==
    dispatchToTarget(selectedAssets,
                     MulP(adjustTargetForObjective(context, context.targetKw),
                          targetMultiplier(selectedAssets, context, rnd)),
                     context, getRiskParams(context.strategyConfig.riskPosture))

\* --- Stochastic ---
stochasticDispatch(context, rnd) ==
    dispatchStochastic(selectAndOrderAssets(context), context, rnd)

\* the target of feedbackControlDispatch before its clamp
feedbackCorrectedTarget(context) ==
    LET subtype == context.strategyConfig.frameworkSubtype
        adjusted == adjustTargetForObjective(context, context.targetKw)
    IN IF context.previousAchievedKw = << >> THEN adjusted
       ELSE LET error == context.targetKw - context.previousAchievedKw[1]
                integral == context.accumulatedError + error
                derivative == error - (context.targetKw - context.previousAchievedKw[1])
                \* Kp 1.2, Ki 0.1, Kd 0.3
                correction == (12 * error + integral + 3 * derivative) \div 10
            IN CASE subtype = "error_correction" ->
                      context.targetKw + (3 * error) \div 2
                 [] subtype = "adaptive_weighting" -> context.targetKw + error
                 [] subtype = "pid_like_control" -> context.targetKw + correction
                 [] OTHER -> adjusted

\* the effective target without the clamp
feedbackTargetUnclamped(context) == feedbackCorrectedTarget(context)

\* Clamp effective target to reasonable bounds
feedbackTarget(context) ==
    Max(0, Min(feedbackCorrectedTarget(context), context.targetKw * 2))

\* --- Feedback Control ---
feedbackControlDispatch(context, rnd) ==
    dispatchToTarget(selectAndOrderAssets(context), feedbackTarget(context), context,
                     getRiskParams(context.strategyConfig.riskPosture))

\* MAIN DISPATCH EXECUTOR
executeComposableStrategy(context, rnd) ==
    LET framework == context.strategyConfig.decisionFramework
    IN CASE framework = "deterministic_policy" -> deterministicDispatch(context, rnd)
         [] framework = "greedy_myopic" -> greedyDispatch(context, rnd)
         [] framework = "stochastic" -> stochasticDispatch(context, rnd)
         [] framework = "feedback_control" -> feedbackControlDispatch(context, rnd)
         [] OTHER -> feedbackControlDispatch(context, rnd)

\* ------------------------------------------------- scenario inputs (bounded)

\* ScenarioConfig fields the asset models read (generateScenario's values:
\* sigma_drift 0.01, rho 0.8, pct_uniform 0.05, medium noncompliance 0.15)
AssetConfig ==
    [baseline_error |-> [sigma_drift |-> 10, rho |-> 800],
     measurement_noise |-> [pct_uniform |-> 50],
     noncompliance |-> [probability |-> 150]]

HvacCooling ==
    [id |-> 1, type |-> "hvac_resi",
     params |-> [mode |-> "cooling", pref_setpoint_f |-> 7600, comfort_max_f |-> 7800,
                 comfort_min_f |-> 6000, alpha |-> 50, beta |-> -50, hvac_kw |-> 40,
                 deadband_f |-> 50],
     state |-> [tin_f |-> 7650, hvac_on |-> FALSE, setpoint_f |-> 7600, dropped |-> FALSE,
                baseline_bias |-> 30, baseline_drift |-> 0]]

HvacHeating ==
    [id |-> 2, type |-> "hvac_resi",
     params |-> [mode |-> "heating", pref_setpoint_f |-> 7000, comfort_max_f |-> 8500,
                 comfort_min_f |-> 6600, alpha |-> 50, beta |-> 50, hvac_kw |-> 30,
                 deadband_f |-> 50],
     state |-> [tin_f |-> 6900, hvac_on |-> FALSE, setpoint_f |-> 7000, dropped |-> FALSE,
                baseline_bias |-> -20, baseline_drift |-> 0]]

Battery ==
    [id |-> 3, type |-> "battery_resi",
     params |-> [e_kwh |-> 1000, p_dis_kw |-> 40, p_ch_kw |-> 40, soc_reserve |-> 200],
     state |-> [soc |-> 260, dropped |-> FALSE, baseline_bias |-> 10, baseline_drift |-> 0]]

\* an EV that needs 100 more energy units than it holds and leaves at tick 2
Ev ==
    [id |-> 4, type |-> "ev_resi",
     params |-> [charger_level |-> "L2", p_max_kw |-> 72, e_req_kwh |-> 3600,
                 e_capacity_kwh |-> 7200, t_arrival |-> 0, t_depart |-> 2],
     state |-> [e_kwh |-> 3500, plugged |-> TRUE, dropped |-> FALSE,
                override_active |-> FALSE, baseline_bias |-> 0, baseline_drift |-> 0]]

Fleet ==
    [id |-> 5, type |-> "fleet_site",
     params |-> [u_site_max_kw |-> 200,
                 vehicles |-> << [id |-> 1, p_max_kw |-> 100, e_req_kwh |-> 4000,
                                  e_capacity_kwh |-> 9000, t_arrival |-> 0, t_depart |-> 2],
                                 [id |-> 2, p_max_kw |-> 150, e_req_kwh |-> 6000,
                                  e_capacity_kwh |-> 12000, t_arrival |-> 1, t_depart |-> 4] >>],
     state |-> [vehicle_state |-> << [e_kwh |-> 1200, plugged |-> TRUE],
                                     [e_kwh |-> 3000, plugged |-> FALSE] >>,
                dropped |-> FALSE, baseline_bias |-> 0, baseline_drift |-> 0]]

CiBuilding ==
    [id |-> 6, type |-> "ci_building",
     params |-> [smax_hvac_kw |-> 400, fatigue_k |-> 500, fatigue_a |-> 300,
                 fatigue_b |-> 50, process_load_kw |-> 500, max_process_toggles |-> 2,
                 business_hours |-> [start_hour |-> 8, end_hour |-> 18]],
     state |-> [fatigue |-> 0, hvac_shed_kw |-> 0, process_on |-> TRUE,
                process_toggles_used |-> 0, dropped |-> FALSE,
                baseline_bias |-> 0, baseline_drift |-> 0]]

\* the same building late in a long event: fatigue 1.9 (the level a dozen
\* ticks of full shed reach)
CiBuildingTired == [CiBuilding EXCEPT !.id = 7, !.state.fatigue = 1900]

\* a Scenario is an external input (SET_SCENARIO): its assets may arrive
\* with dropped already set; no update of a battery or a fleet site sets it
BatteryGone == [Battery EXCEPT !.id = 8, !.state.dropped = TRUE]
FleetGone == [Fleet EXCEPT !.id = 9, !.state.dropped = TRUE]

\* with them a battery 1% under full, an EV under deadline pressure from
\* the first tick and an EV that arrives at tick 2 and leaves at tick 3
AssetCatalog ==
    {HvacCooling, HvacHeating, Battery, Ev, Fleet, CiBuilding, CiBuildingTired,
     BatteryGone, FleetGone,
     [Battery EXCEPT !.id = 12, !.state.soc = 990],
     [Ev EXCEPT !.id = 13, !.params.t_depart = 3, !.state.e_kwh = 3400],
     [Ev EXCEPT !.id = 14, !.params.t_arrival = 2, !.params.t_depart = 3,
                !.state.e_kwh = 3300, !.state.plugged = FALSE]}

\* the commands of each type (AssetCommand), and null
CommandsFor(type) ==
    CASE type = "hvac_resi" ->
           {[type |-> "hvac", delta_setpoint_f |-> d] : d \in {-200, 100, 200}}
      [] type = "battery_resi" ->
           {[type |-> "battery", power_kw |-> p] : p \in {-30, 0, 20, 50}}
      [] type = "ev_resi" ->
           {[type |-> "ev", power_kw |-> p] : p \in {0, 36}}
      [] type = "fleet_site" ->
           {[type |-> "fleet", site_power_cap_kw |-> c] : c \in {0, 120}}
      [] type = "ci_building" ->
           {[type |-> "ci_building", hvac_shed_kw |-> k, process_on |-> b] :
               k \in {0, 400}, b \in BOOLEAN}
      [] OTHER -> {}

CommandsOrNone(type) == CommandsFor(type) \cup {NoCommand}

\* outdoor temperatures (0.01 degF)
Temps == {3000, 10000}

\* the scenario's start hour (getHours of start_time): outside and inside
\* business hours
StartHours == {6, 14}

\* Math.random() samples for one updateAsset call: the noncompliance roll,
\* the drift innovation and the measurement noise
AssetDraws ==
    {[roll |-> 0, drift |-> 0, noise |-> 999],      \* ignored, drift down, noise up
     [roll |-> 500, drift |-> 500, noise |-> 500]}  \* honoured, no drift, no noise

\* the asset specification runs ticks 0 .. MaxTick - 1
MaxTick == 4

\* ---------------------------------------------- dispatch inputs (bounded)

\* StrategyConfig
Strategy(framework, subtype, objective, posture, orderings) ==
    [decisionFramework |-> framework, frameworkSubtype |-> subtype,
     objective |-> objective, riskPosture |-> posture, selectionOrderings |-> orderings]

\* DEFAULT_STRATEGY_CONFIG
DEFAULT_STRATEGY_CONFIG ==
    Strategy("feedback_control", "error_correction", "capacity", "neutral",
             <<"balanced_weighting", "highest_headroom">>)

\* every subtype under its framework, the postures, objectives and orderings
\* spread over them; a subtype of another framework; a framework that is
\* not one of the four
StrategyConfigs ==
    {DEFAULT_STRATEGY_CONFIG,
     Strategy("deterministic_policy", "static_priority", "efficiency", "risk_averse",
              <<"batteries_first">>),
     Strategy("deterministic_policy", "threshold_triggered", "capacity", "neutral",
              <<"hvac_first", "least_recently_dispatched">>),
     Strategy("deterministic_policy", "threshold_triggered", "efficiency", "deadline_aware",
              <<"round_robin">>),
     Strategy("deterministic_policy", "state_machine", "risk_minimization",
              "opportunity_seeking", <<"high_load_reduction_first", "fatigue_balanced">>),
     Strategy("deterministic_policy", "scenario_tree", "learning_oriented", "deadline_aware",
              <<"highest_trust_score", "lowest_variance", "highest_soc_buffer">>),
     Strategy("greedy_myopic", "max_capacity_now", "capacity", "opportunity_seeking",
              <<"lowest_marginal_comfort_cost">>),
     Strategy("greedy_myopic", "min_risk_now", "regret_minimization", "risk_averse",
              <<"lowest_variance">>),
     Strategy("greedy_myopic", "best_efficiency_now", "efficiency", "neutral",
              <<"best_historical_delivery", "round_robin">>),
     Strategy("stochastic", "expected_value", "capacity", "neutral", <<"highest_headroom">>),
     Strategy("stochastic", "chance_constrained", "risk_minimization", "risk_averse",
              <<"balanced_weighting">>),
     Strategy("stochastic", "monte_carlo_weighted", "efficiency", "opportunity_seeking",
              <<"highest_soc_buffer", "batteries_first">>),
     Strategy("feedback_control", "adaptive_weighting", "learning_oriented", "deadline_aware",
              <<"highest_trust_score">>),
     Strategy("feedback_control", "pid_like_control", "efficiency", "risk_averse",
              <<"fatigue_balanced", "hvac_first">>),
     Strategy("stochastic", "threshold_triggered", "capacity", "neutral", << >>),
     Strategy("rule_based", "static_priority", "capacity", "neutral",
              <<"balanced_weighting">>)}

\* an EV that leaves at tick 1
EvEarly == [Ev EXCEPT !.id = 10, !.params.t_depart = 1]

\* a cooling home that starts 0.5 degF under its comfort limit
HvacHot == [HvacCooling EXCEPT !.id = 11, !.state.tin_f = 7750]

\* the asset lists of the scenarios dispatched (Scenario.assets)
AssetLists ==
    {<<HvacHot, Battery, EvEarly, CiBuildingTired>>,
     <<BatteryGone, Fleet, HvacHeating,
       [Ev EXCEPT !.id = 13, !.params.t_depart = 3, !.state.e_kwh = 3400]>>,
     \* nothing to dispatch: a dropped battery and site, an EV that has not
     \* arrived, a battery at its reserve; and no asset at all
     <<BatteryGone, FleetGone,
       [Ev EXCEPT !.id = 14, !.params.t_arrival = 2, !.params.t_depart = 3,
                  !.state.e_kwh = 3300, !.state.plugged = FALSE],
       [Battery EXCEPT !.id = 15, !.state.soc = 200]>>,
     << >>}

\* the scenario's target (dkW), constant over the event, and the runtime
\* dispatch intensity
DispatchScenarios ==
    {[target |-> 60, dispatchIntensity |-> << >>],
     [target |-> 400, dispatchIntensity |-> [hvac_resi |-> 100, battery_resi |-> 0,
                                             ev_resi |-> 30, fleet_site |-> 80,
                                             ci_building |-> 50]]}

\* the weather of the dispatched event (0.01 degF)
DispatchWeather == << 10000, 9500, 10000, 9500, 10000, 9500 >>

\* Math.random() samples of one tick: those of the strategy, those of the
\* asset updates
TickDraws ==
    {[strategy |-> [dropoffs |-> 0, samples |-> [s \in 1..NumSamples |-> "all"]],
      asset |-> [roll |-> 500, drift |-> 500, noise |-> 500]],
     [strategy |-> [dropoffs |-> 45,
                    samples |-> [s \in 1..NumSamples |->
                                   IF s <= 4 THEN "first"
                                   ELSE IF s <= 7 THEN "none" ELSE "rest"]],
      asset |-> [roll |-> 0, drift |-> 0, noise |-> 999]]}

\* the dispatch specification runs ticks 0 .. MaxDispatchTick - 1 of an
\* event of DispatchHorizon ticks
MaxDispatchTick == 2
DispatchHorizon == 12

\* the ids of the assets of a list
idsOf(assets) == {assets[i].id : i \in 1..Len(assets)}

\* the ids a command list names
commandIds(commands) == {commands[i].asset_id : i \in 1..Len(commands)}

\* commandMap.get(asset.id)?.command ?? null (the last command set for the id)
commandFor(commands, asset) ==
    IF asset.id \in commandIds(commands)
    THEN commands[CHOOSE i \in 1..Len(commands) :
                     /\ commands[i].asset_id = asset.id
                     /\ \A j \in (i + 1)..Len(commands) : commands[j].asset_id # asset.id].command
    ELSE NoCommand

\* -------------------------------------------------------- SimulationEngine

\* DIFFICULTY_PRESETS: response_variability and over_performance_penalty_ratio
\* in permille, penalty_exponent in tenths
DIFFICULTY_PRESETS ==
    [easy |-> [response_variability |-> 100, penalty_exponent |-> 15,
               over_performance_penalty_ratio |-> 300],
     medium |-> [response_variability |-> 250, penalty_exponent |-> 20,
                 over_performance_penalty_ratio |-> 500],
     hard |-> [response_variability |-> 400, penalty_exponent |-> 30,
               over_performance_penalty_ratio |-> 700]]

\* this.assetPerformanceScores.set(asset.id, 0.5) for every asset
initialScores(assets) == [id \in idsOf(assets) |-> Scale \div 2]

\* the SimulationState of an engine not yet started; assets is the deep
\* clone JSON.parse(JSON.stringify(scenario.assets))
initialState(scenario) ==
    [scenario |-> scenario,
     current_timestep |-> 0,
     assets |-> scenario.assets,
     history |-> << >>,
     total_penalty |-> 0,
     is_running |-> FALSE,
     is_complete |-> FALSE]

\* new SimulationEngine(scenario, strategyConfig, difficulty, onUpdate,
\* onComplete): the fields of the object; animationFrameId 0 is null, the
\* speed multiplier is in tenths
constructor(scenario, strategyConfig, difficulty) ==
    [state |-> initialState(scenario),
     strategyConfig |-> strategyConfig,
     difficulty |-> difficulty,
     animationFrameId |-> 0,
     speedMultiplier |-> 10,
     previouslyDispatchedAssets |-> {},
     accumulatedError |-> 0,
     assetPerformanceScores |-> initialScores(scenario.assets)]

\* getState(): { ...this.state }, a new object with the same field values
\* (the history array and the asset objects are the engine's own)
getState(this) == this.state

\* what an operation leaves behind: the engine, the animation frames still
\* requested, and how often it called onUpdate and onComplete
Outcome(this, frames, onUpdate, onComplete) ==
    [this |-> this, frames |-> frames, onUpdate |-> onUpdate, onComplete |-> onComplete]

\* pause()
pause(this, frames) ==
    Outcome([this EXCEPT !.state.is_running = FALSE, !.animationFrameId = 0],
            IF this.animationFrameId # 0 THEN frames \ {this.animationFrameId} ELSE frames,
            0, 0)

\* setSpeed(multiplier), in tenths: clamped to 0.5 .. 10
setSpeed(this, multiplier) ==
    [this EXCEPT !.speedMultiplier = Max(5, Min(100, multiplier))]

\* updateRiskPosture(riskPosture)
updateRiskPosture(this, riskPosture) ==
    [this EXCEPT !.strategyConfig.riskPosture = riskPosture]

\* updateStrategyConfig(config): { ...this.strategyConfig, ...config }
\* a configuration update that also clears the feedback memory
updateStrategyConfigForgetting(this, config) ==
    [this EXCEPT !.strategyConfig =
                    [k \in DOMAIN this.strategyConfig \cup DOMAIN config |->
                        IF k \in DOMAIN config THEN config[k] ELSE this.strategyConfig[k]],
                 !.previouslyDispatchedAssets = {},
                 !.accumulatedError = 0]

updateStrategyConfig(this, config) ==
    [this EXCEPT !.strategyConfig =
        [k \in DOMAIN this.strategyConfig \cup DOMAIN config |->
            IF k \in DOMAIN config THEN config[k] ELSE this.strategyConfig[k]]]

\* the engine after reset()'s pause(): new state, feedback memory cleared
resetPaused(paused) ==
    Outcome([paused.this EXCEPT
                !.state = initialState(paused.this.state.scenario),
                !.assetPerformanceScores = initialScores(paused.this.state.scenario.assets),
                !.previouslyDispatchedAssets = {},
                !.accumulatedError = 0],
            paused.frames, 1, 0)

\* reset() that re-creates the state but keeps the feedback memory
resetKeepsFeedback(this, frames) ==
    Outcome([this EXCEPT !.state = initialState(this.state.scenario),
                         !.animationFrameId = 0],
            frames \ {this.animationFrameId}, 1, 0)

\* reset()
reset(this, frames) == resetPaused(pause(this, frames))

\* requestAnimationFrame: a handle no live request and no stored handle has
requestAnimationFrame(this, frames) ==
    CHOOSE id \in 1..(Cardinality(frames) + 2) :
        /\ id \notin frames
        /\ id # this.animationFrameId
        /\ \A smaller \in 1..(id - 1) : smaller \in frames \/ smaller = this.animationFrameId

\* config.objective.target_kw ?? 0
targetOf(config) ==
    IF config.objective.target_kw = << >> THEN 0 ELSE config.objective.target_kw[1]

\* config.weather.outdoor_temp_f[timestep] ?? 75
outdoorTempAt(config, timestep) ==
    IF timestep + 1 <= Len(config.weather.outdoor_temp_f)
    THEN config.weather.outdoor_temp_f[timestep + 1]
    ELSE 7500

\* previousResult?.achieved_kw ?? null
previousAchievedKw(history) ==
    IF history = << >> THEN << >> ELSE << history[Len(history)].achieved_kw >>

\* Update accumulated error for PID control, clamped to prevent windup
\* the integration of the previous error without the clamp
updateAccumulatedErrorUnclamped(accumulatedError, targetKw, previous) ==
    IF previous = << >> THEN accumulatedError
    ELSE accumulatedError + (targetKw - previous[1])

updateAccumulatedError(accumulatedError, targetKw, previous) ==
    IF previous = << >> THEN accumulatedError
    ELSE Max(-targetKw * 5, Min(targetKw * 5, accumulatedError + (targetKw - previous[1])))

\* the StrategyContext advanceTimestep builds; this engine sets no dispatch
\* intensity, every asset type is at the default
engineContext(this, accumulatedError) ==
    [assets |-> this.state.assets,
     targetKw |-> targetOf(this.state.scenario.scenario),
     currentTimestep |-> this.state.current_timestep,
     totalTimesteps |-> this.state.scenario.scenario.timesteps,
     config |-> this.state.scenario.scenario,
     strategyConfig |-> this.strategyConfig,
     dispatchIntensity |-> << >>,
     previousAchievedKw |-> previousAchievedKw(this.state.history),
     previouslyDispatchedAssetIds |-> this.previouslyDispatchedAssets,
     accumulatedError |-> accumulatedError,
     assetPerformanceScores |-> this.assetPerformanceScores]

AssetTypes == {"hvac_resi", "battery_resi", "ev_resi", "fleet_site", "ci_building"}

\* dispatchesByType: the commands per asset type, for assets the map knows
dispatchesByType(assets, commands) ==
    [t \in AssetTypes |->
        Cardinality({c \in 1..Len(commands) :
            \E i \in 1..Len(assets) :
                assets[i].id = commands[c].asset_id /\ assets[i].type = t})]

\* newDispatchCalls: those not dispatched in the previous timestep
newDispatchCalls(assets, commands, previouslyDispatched) ==
    [t \in AssetTypes |->
        Cardinality({c \in 1..Len(commands) :
            /\ commands[c].asset_id \notin previouslyDispatched
            /\ \E i \in 1..Len(assets) :
                  assets[i].id = commands[c].asset_id /\ assets[i].type = t})]

\* startDate.getHours(), start_time being the minute of the day
startHourOf(config) == config.start_time \div 60

\* the time of day (minutes) the time string of a timestep shows
timeString(config, timestep) == (config.start_time + timestep * TIMESTEP_MINUTES) % DayMinutes

\* the updateAsset results of the tick, one per asset of this.state.assets
updateAssets(this, commands, rnd) ==
    [i \in 1..Len(this.state.assets) |->
        updateAsset(this.state.assets[i], commandFor(commands, this.state.assets[i]),
                    this.state.current_timestep,
                    outdoorTempAt(this.state.scenario.scenario, this.state.current_timestep),
                    startHourOf(this.state.scenario.scenario),
                    this.state.scenario.scenario, rnd.asset)]

\* achievedKw in thousandths of a power unit: every powerDelta times its
\* variabilityFactor 1 + (Math.random() * 2 - 1) * responseVariability
RECURSIVE sumAchieved(_, _, _, _)
sumAchieved(results, n, variability, responseVariability) ==
    IF n = 0 THEN 0
    ELSE results[n].powerDelta
            * (Scale + MulP(Signed(variability[((n - 1) % Len(variability)) + 1]),
                            responseVariability))
         + sumAchieved(results, n - 1, variability, responseVariability)

\* the scores after the tick: -0.1 (floor 0) for a dispatched asset that is
\* dropped now, +0.02 (cap 1) for a dispatched asset that is not
\* the score update with every asset that is not dispatched-and-dropped raised
updateScoresOfAll(scores, results, dispatched) ==
    LET updatedIds == {results[i].asset.id : i \in 1..Len(results)}
        updated(id) == results[CHOOSE i \in 1..Len(results) : results[i].asset.id = id].asset
    IN [id \in DOMAIN scores \cup updatedIds |->
          LET currentScore == IF id \in DOMAIN scores THEN scores[id] ELSE Scale \div 2
          IN IF id \in updatedIds /\ id \in dispatched /\ updated(id).state.dropped
             THEN Max(0, currentScore - 100)
             ELSE Min(Scale, currentScore + 20)]

updateScores(scores, results, dispatched) ==
    LET updatedIds == {results[i].asset.id : i \in 1..Len(results)}
        updated(id) == results[CHOOSE i \in 1..Len(results) : results[i].asset.id = id].asset
    IN [id \in DOMAIN scores \cup (updatedIds \cap dispatched) |->
          LET currentScore == IF id \in DOMAIN scores THEN scores[id] ELSE Scale \div 2
          IN IF id \in updatedIds /\ id \in dispatched
             THEN (IF updated(id).state.dropped
                   THEN Max(0, currentScore - 100)
                   ELSE Min(Scale, currentScore + 20))
             ELSE currentScore]

\* the largest normalised deviation the fixed point carries
DeviationCap == 5 * Scale

\* floor of the square root of a non-negative integer
Isqrt(x) == CHOOSE r \in 0..(DeviationCap * 3) : r * r <= x /\ (r + 1) * (r + 1) > x

\* Math.pow(normalizedDeviation, penaltyExponent) in permille, the exponent
\* in tenths (1.5, 2.0 or 3.0)
powDeviation(normalizedDeviation, penaltyExponent) ==
    IF penaltyExponent = 15
    THEN (normalizedDeviation * Isqrt(normalizedDeviation * Scale)) \div Scale
    ELSE IF penaltyExponent = 20
    THEN (normalizedDeviation * normalizedDeviation) \div Scale
    ELSE (((normalizedDeviation * normalizedDeviation) \div Scale) * normalizedDeviation)
            \div Scale

\* the penalty of a tick in millionths; targetKw in power units, achieved in
\* thousandths of one, epsilon 0.001 kW being 10 thousandths of a power unit
\* the penalty with over-performance charged like under-performance
penaltyOfSymmetric(targetKw, achieved, settings) ==
    LET deviation == Abs(targetKw * Scale - achieved)
        normalizedDeviation == Min(DeviationCap, (deviation * Scale) \div (targetKw * Scale + 10))
    IN powDeviation(normalizedDeviation, settings.penalty_exponent) * Scale

penaltyOf(targetKw, achieved, settings) ==
    LET deviation == Abs(targetKw * Scale - achieved)
        normalizedDeviation == Min(DeviationCap, (deviation * Scale) \div (targetKw * Scale + 10))
        basePenalty == powDeviation(normalizedDeviation, settings.penalty_exponent)
    IN IF achieved > targetKw * Scale
       THEN basePenalty * settings.over_performance_penalty_ratio
       ELSE basePenalty * Scale

\* the TimestepResult of the tick
timestepResult(this, commands, results, achieved, penalty) ==
    [timestep |-> this.state.current_timestep,
     time |-> timeString(this.state.scenario.scenario, this.state.current_timestep),
     target_kw |-> targetOf(this.state.scenario.scenario),
     achieved_kw |-> Round(achieved),
     shortfall_kw |-> Round(Max(0, targetOf(this.state.scenario.scenario) * Scale - achieved)),
     penalty |-> (penalty + 50) \div 100,
     assets_dropped |-> Cardinality({i \in 1..Len(results) : results[i].asset.state.dropped}),
     outdoor_temp_f |-> outdoorTempAt(this.state.scenario.scenario,
                                      this.state.current_timestep),
     dispatches_by_type |-> dispatchesByType(this.state.assets, commands),
     new_dispatch_calls |-> newDispatchCalls(this.state.assets, commands,
                                             this.previouslyDispatchedAssets)]

\* the end of advanceTimestep: the result is pushed, the penalty added and
\* the timestep counted
recordTick(this, accumulatedError, commands, results, achieved, penalty) ==
    [this EXCEPT
        !.accumulatedError = accumulatedError,
        !.previouslyDispatchedAssets = commandIds(commands),
        !.assetPerformanceScores = updateScores(this.assetPerformanceScores, results,
                                                commandIds(commands)),
        !.state.assets = [i \in 1..Len(results) |-> results[i].asset],
        !.state.history = Append(this.state.history,
                                 timestepResult(this, commands, results, achieved, penalty)),
        !.state.total_penalty = this.state.total_penalty + penalty,
        !.state.current_timestep = this.state.current_timestep + 1]

\* advanceTimestep from the asset updates on
scoreTick(this, accumulatedError, commands, results, achieved) ==
    recordTick(this, accumulatedError, commands, results, achieved,
               penaltyOf(targetOf(this.state.scenario.scenario), achieved,
                         DIFFICULTY_PRESETS[this.difficulty]))

\* advanceTimestep from the strategy's commands on
applyCommands(this, accumulatedError, commands, results, rnd) ==
    scoreTick(this, accumulatedError, commands, results,
              sumAchieved(results, Len(results), rnd.variability,
                          DIFFICULTY_PRESETS[this.difficulty].response_variability))

\* advanceTimestep past the completion check
applyTick(this, accumulatedError, commands, rnd) ==
    applyCommands(this, accumulatedError, commands, updateAssets(this, commands, rnd), rnd)

dispatchTick(this, accumulatedError, rnd) ==
    applyTick(this, accumulatedError,
              executeComposableStrategy(engineContext(this, accumulatedError), rnd.strategy),
              rnd)

\* advanceTimestep() without the completion check
advanceAlways(this, rnd) ==
    dispatchTick(this,
                 updateAccumulatedError(this.accumulatedError,
                                        targetOf(this.state.scenario.scenario),
                                        previousAchievedKw(this.state.history)),
                 rnd)

\* advanceTimestep()
advanceTimestep(this, rnd) ==
    IF this.state.current_timestep >= this.state.scenario.scenario.timesteps
    THEN [this EXCEPT !.state.is_complete = TRUE, !.state.is_running = FALSE]
    ELSE dispatchTick(this,
                      updateAccumulatedError(this.accumulatedError,
                                             targetOf(this.state.scenario.scenario),
                                             previousAchievedKw(this.state.history)),
                      rnd)

\* requestAnimationFrame(this.tick), the handle kept in animationFrameId
scheduleTick(this, frames, id) ==
    Outcome([this EXCEPT !.animationFrameId = id], frames \cup {id}, 0, 0)

\* tick() after advanceTimestep(): onUpdate, then onComplete and no further
\* frame when complete, else the next frame
tickAdvanced(this, frames, id) ==
    IF this.state.is_complete
    THEN Outcome(this, frames, 1, 1)
    ELSE Outcome([this EXCEPT !.animationFrameId = id], frames \cup {id}, 1, 0)

\* tick(), frames being the requests still pending when it runs; due is
\* elapsed >= stepDuration
tick(this, frames, due, rnd) ==
    IF ~this.state.is_running \/ this.state.is_complete
    THEN Outcome(this, frames, 0, 0)
    ELSE IF due
    THEN tickAdvanced(advanceTimestep(this, rnd), frames, requestAnimationFrame(this, frames))
    ELSE scheduleTick(this, frames, requestAnimationFrame(this, frames))

\* start(): the tick() it calls finds no time elapsed since lastUpdateTime
\* and requests a frame
start(this, frames) ==
    IF this.state.is_complete
    THEN Outcome(this, frames, 0, 0)
    ELSE scheduleTick([this EXCEPT !.state.is_running = TRUE], frames,
                      requestAnimationFrame(this, frames))

\* step() after advanceTimestep(): onUpdate, and onComplete when complete
stepAdvanced(this, frames) ==
    Outcome(this, frames, 1, IF this.state.is_complete THEN 1 ELSE 0)

\* step() that advances a complete engine too
stepAlways(this, frames, rnd) == stepAdvanced(advanceTimestep(this, rnd), frames)

\* step()
step(this, frames, rnd) ==
    IF this.state.is_complete
    THEN Outcome(this, frames, 0, 0)
    ELSE stepAdvanced(advanceTimestep(this, rnd), frames)

\* ------------------------------------------------ engine inputs (bounded)

\* a ScenarioConfig: start_time is the minute of the day, target_kw << >>
\* when the objective has none
ScenarioConfig(timesteps, target_kw, outdoor_temp_f) ==
    [start_time |-> 14 * 60,
     timesteps |-> timesteps,
     weather |-> [outdoor_temp_f |-> outdoor_temp_f],
     objective |-> [type |-> "capacity", target_kw |-> target_kw],
     baseline_error |-> AssetConfig.baseline_error,
     measurement_noise |-> AssetConfig.measurement_noise,
     noncompliance |-> AssetConfig.noncompliance]

\* the events run: the number of timesteps
Horizon == 2

\* the engines constructed: a hot afternoon with a target under the default
\* strategy, and an event with a target of 0 whose weather series is too short
EngineSetups ==
    {[scenario |-> [scenario |-> ScenarioConfig(Horizon, << 40 >>,
                                                [t \in 1..Horizon |-> 10000]),
                    assets |-> << HvacHot, Fleet, Battery >>],
      strategyConfig |-> DEFAULT_STRATEGY_CONFIG,
      difficulty |-> "medium"],
     [scenario |-> [scenario |-> ScenarioConfig(Horizon, << 0 >>, << 9500 >>),
                    assets |-> << EvEarly, CiBuildingTired, HvacCooling >>],
      strategyConfig |-> Strategy("deterministic_policy", "threshold_triggered", "capacity",
                                  "neutral", <<"hvac_first", "least_recently_dispatched">>),
      difficulty |-> "hard"]}

\* Math.random() samples of one engine tick: the strategy's, the asset
\* updates' and the response variability's (one per asset, cyclically)
EngineDraws ==
    {[strategy |-> [dropoffs |-> 0, samples |-> [s \in 1..NumSamples |-> "all"]],
      asset |-> [roll |-> 500, drift |-> 500, noise |-> 500],
      variability |-> << 500 >>],
     [strategy |-> [dropoffs |-> 45, samples |-> [s \in 1..NumSamples |-> "first"]],
      asset |-> [roll |-> 0, drift |-> 0, noise |-> 999],
      variability |-> << 0, 999 >>]}

\* the arguments the controls are called with
Speeds == {1}
RiskPostures == {"risk_averse"}
ConfigUpdates ==
    {[decisionFramework |-> "greedy_myopic", riskPosture |-> "risk_averse",
      selectionOrderings |-> << >>]}

\* at most this many animation frames are requested and not yet run
MaxPending == 2

\* ------------------------------------------------------------- variables

VARIABLES
    a_asset,    \* the asset under updateAsset
    a_prev,     \* the asset passed to the last updateAsset call
    a_cmd,      \* the command passed to the last call
    a_delta,    \* the powerDelta the last call returned
    a_tick,     \* the next tick index
    a_hour,     \* startHour
    d_strategy, \* the StrategyConfig and dispatch intensity of the run
    d_target,   \* the scenario's target
    d_assets,   \* the asset list
    d_context,  \* the feedback handed to the last executeComposableStrategy call
    d_start,    \* the asset list that call was given
    d_commands, \* the commands it returned
    d_tick,     \* the next tick index
    engine,     \* the SimulationEngine object
    frames,     \* the animation frames requested and neither run nor cancelled
    ui,         \* the is_running and is_complete the screen was last given
    completions,\* the onComplete calls since construction or the last reset()
    lastOp,     \* the last operation on the engine and the state it was called in
    snapshot,   \* a SimulationState a caller of getState() kept
    firstRun,   \* the history of a completed run, kept over reset()
    game        \* the GameProvider's GameState and the engine playAgain dropped;
                \* << >> where the engine is driven directly

assetVars == <<a_asset, a_prev, a_cmd, a_delta, a_tick, a_hour>>

dispatchVars == <<d_strategy, d_target, d_assets, d_context, d_start, d_commands, d_tick>>

engineVars == <<engine, frames, ui, completions, lastOp, snapshot, firstRun>>

vars == <<assetVars, dispatchVars, engineVars, game>>

\* the variables of a part of the model that a specification does not run
AssetIdle ==
    /\ a_asset = NoCommand /\ a_prev = NoCommand /\ a_cmd = NoCommand
    /\ a_delta = 0 /\ a_tick = 0 /\ a_hour = 0

DispatchIdle ==
    /\ d_strategy = << >> /\ d_target = 0 /\ d_assets = << >> /\ d_context = << >>
    /\ d_start = << >> /\ d_commands = << >> /\ d_tick = 0

EngineIdle ==
    /\ engine = << >> /\ frames = {} /\ ui = << >> /\ completions = 0
    /\ lastOp = << >> /\ snapshot = << >> /\ firstRun = << >>
    /\ game = << >>

\* ------------------------------------------------- the asset specification

InitAsset ==
    /\ a_asset \in AssetCatalog
    /\ a_prev = a_asset
    /\ a_cmd = NoCommand
    /\ a_delta = 0
    /\ a_tick = 0
    /\ a_hour \in StartHours
    /\ DispatchIdle
    /\ EngineIdle

\* one tick of one asset: updateAsset with any command of its type or none
UpdateAssetCall ==
    /\ a_tick < MaxTick
    /\ \E cmd \in CommandsOrNone(a_asset.type), temp \in Temps, rnd \in AssetDraws :
         LET r == updateAsset(a_asset, cmd, a_tick, temp, a_hour, AssetConfig, rnd)
         IN /\ a_asset' = r.asset
            /\ a_prev' = a_asset
            /\ a_cmd' = cmd
            /\ a_delta' = r.powerDelta
    /\ a_tick' = a_tick + 1
    /\ UNCHANGED <<a_hour, dispatchVars, engineVars, game>>

NextAsset == UpdateAssetCall

SpecAsset == InitAsset /\ [][NextAsset]_vars

\* updateAsset called with a command of another asset type: the `as` casts
\* of updateAsset check nothing, and a battery and an EV command both carry
\* the power_kw the two models read
UpdateAssetOtherCommand ==
    /\ a_tick < MaxTick
    /\ a_asset.type \in {"battery_resi", "ev_resi"}
    /\ \E cmd \in CommandsFor(IF a_asset.type = "battery_resi" THEN "ev_resi"
                                ELSE "battery_resi"),
          temp \in Temps, rnd \in AssetDraws :
         LET r == updateAsset(a_asset, cmd, a_tick, temp, a_hour, AssetConfig, rnd)
         IN /\ a_asset' = r.asset
            /\ a_prev' = a_asset
            /\ a_cmd' = cmd
            /\ a_delta' = r.powerDelta
    /\ a_tick' = a_tick + 1
    /\ UNCHANGED <<a_hour, dispatchVars, engineVars, game>>

NextAnyCommand == UpdateAssetCall \/ UpdateAssetOtherCommand

SpecAnyCommand == InitAsset /\ [][NextAnyCommand]_vars

\* ------------------------------------- one home commanded up on every tick

\* the ticks of the event the home is commanded through
MaxDropTick == 20

\* a cooling home at 75 degF with comfort_max_f 78, its unit on or off
InitHvacEvent ==
    /\ \E on \in BOOLEAN :
          a_asset = [HvacCooling EXCEPT !.id = 16, !.state.tin_f = 7500,
                                        !.state.hvac_on = on]
    /\ a_prev = a_asset
    /\ a_cmd = NoCommand
    /\ a_delta = 0
    /\ a_tick = 0
    /\ a_hour \in StartHours
    /\ DispatchIdle
    /\ EngineIdle

\* one tick of the event: 90 degF outdoors, a command of +2 degF, honored or
\* not, any drift and noise
HvacEventTick ==
    /\ a_tick < MaxDropTick
    /\ \E rnd \in AssetDraws, roll \in {0, Scale \div 2} :
         LET cmd == [type |-> "hvac", delta_setpoint_f |-> 200]
             r == updateAsset(a_asset, cmd, a_tick, 9000, a_hour, AssetConfig,
                              [rnd EXCEPT !.roll = roll])
         IN /\ a_asset' = r.asset
            /\ a_prev' = a_asset
            /\ a_cmd' = cmd
            /\ a_delta' = r.powerDelta
    /\ a_tick' = a_tick + 1
    /\ UNCHANGED <<a_hour, dispatchVars, engineVars, game>>

NextHvacEvent == HvacEventTick

\* the engine runs every tick of the event
SpecHvacEvent == InitHvacEvent /\ [][NextHvacEvent]_vars /\ WF_vars(HvacEventTick)

\* ---------------------------------------------- the dispatch specification

\* the StrategyContext of a call
contextOf(assets, timestep, feedback) ==
    [assets |-> assets,
     targetKw |-> d_target,
     currentTimestep |-> timestep,
     totalTimesteps |-> DispatchHorizon,
     config |-> AssetConfig,
     strategyConfig |-> d_strategy.strategyConfig,
     dispatchIntensity |-> d_strategy.dispatchIntensity,
     previousAchievedKw |-> feedback.previousAchievedKw,
     previouslyDispatchedAssetIds |-> feedback.previouslyDispatchedAssetIds,
     accumulatedError |-> feedback.accumulatedError,
     assetPerformanceScores |-> feedback.assetPerformanceScores]

\* the feedback a call can be given: no previous result, none of the target
\* achieved (accumulated error at its clamp), the target achieved, half as
\* much again as the target achieved; the set
\* the engine tracks or every asset; no score yet (0.5) or a low score for
\* the dispatched
Feedbacks(assets, tracked) ==
    {[previousAchievedKw |-> p.achieved, accumulatedError |-> p.error,
      previouslyDispatchedAssetIds |-> p.ids,
      assetPerformanceScores |-> [i \in tracked |-> 300]] :
        p \in {[achieved |-> << >>, error |-> 0, ids |-> tracked],
               [achieved |-> <<0>>, error |-> 5 * d_target, ids |-> tracked],
               [achieved |-> <<d_target>>, error |-> 0, ids |-> tracked],
               [achieved |-> <<(3 * d_target) \div 2>>, error |-> -(d_target \div 2),
                ids |-> tracked],
               [achieved |-> <<d_target>>, error |-> 0, ids |-> idsOf(assets)]}}

InitDispatch ==
    /\ \E sc \in DispatchScenarios :
          /\ d_strategy \in [strategyConfig : StrategyConfigs,
                              dispatchIntensity : {sc.dispatchIntensity}]
          /\ d_target = sc.target
    /\ d_assets \in AssetLists
    /\ d_context = << >>
    /\ d_start = d_assets
    /\ d_commands = << >>
    /\ d_tick = 0
    /\ AssetIdle
    /\ EngineIdle

\* one tick: executeComposableStrategy on the current assets, then
\* updateAsset on each asset with its command
DispatchTick ==
    /\ d_tick < MaxDispatchTick
    /\ \E feedback \in Feedbacks(d_assets, commandIds(d_commands)), rnd \in TickDraws :
       \E commands \in {executeComposableStrategy(contextOf(d_assets, d_tick, feedback),
                                                   rnd.strategy)} :
         LET temp == DispatchWeather[d_tick + 1]
         IN /\ d_context' = feedback
            /\ d_start' = d_assets
            /\ d_commands' = commands
            /\ d_assets' = [i \in 1..Len(d_assets) |->
                              updateAsset(d_assets[i], commandFor(commands, d_assets[i]),
                                          d_tick, temp, 14, AssetConfig, rnd.asset).asset]
    /\ d_tick' = d_tick + 1
    /\ UNCHANGED <<d_strategy, d_target, assetVars, engineVars, game>>

NextDispatch == DispatchTick

SpecDispatch == InitDispatch /\ [][NextDispatch]_vars

\* --------------------------------------------------- the engine specification

\* the flags of the SimulationState the screen holds (UPDATE_SIMULATION,
\* SIMULATION_COMPLETE)
flagsOf(state) == [is_running |-> state.is_running, is_complete |-> state.is_complete]

\* no snapshot kept
NoSnapshot == [taken |-> FALSE, live |-> FALSE, original |-> << >>, current |-> << >>]

\* the assets of a kept snapshot after the engine updated its own: a fleet
\* site's vehicle_state is the one object every version of the asset shares
sharedAssets(kept, assets) ==
    [i \in 1..Len(kept) |->
        IF kept[i].type = "fleet_site"
        THEN [kept[i] EXCEPT !.state.vehicle_state = assets[i].state.vehicle_state]
        ELSE kept[i]]

\* a kept snapshot after an operation: until reset() replaces this.state its
\* history is the array the engine pushes to
observed(kept, this, op) ==
    IF ~kept.taken \/ ~kept.live THEN kept
    ELSE IF op = "reset" THEN [kept EXCEPT !.live = FALSE]
    ELSE [kept EXCEPT !.current.history = this.state.history,
                      !.current.assets = sharedAssets(kept.current.assets, this.state.assets)]

NoRun == [recorded |-> FALSE, history |-> << >>]

\* an operation and the state it was called in
called(op, state) ==
    [op |-> op, timestep |-> state.current_timestep,
     is_running |-> state.is_running, is_complete |-> state.is_complete]

\* the effect of an engine operation on the model's state
Operate(out, op) ==
    /\ engine' = out.this
    /\ frames' = out.frames
    /\ ui' = IF out.onUpdate + out.onComplete > 0 THEN flagsOf(getState(out.this)) ELSE ui
    /\ completions' = IF op = "reset" THEN 0 ELSE completions + out.onComplete
    /\ lastOp' = called(op, engine.state)
    /\ snapshot' = observed(snapshot, out.this, op)
    /\ UNCHANGED <<assetVars, dispatchVars>>

Init ==
    /\ \E setup \in EngineSetups :
          engine = constructor(setup.scenario, setup.strategyConfig, setup.difficulty)
    /\ frames = {}
    /\ ui = [is_running |-> FALSE, is_complete |-> FALSE]
    /\ completions = 0
    /\ lastOp = called("new", engine.state)
    /\ snapshot = NoSnapshot
    /\ firstRun = NoRun
    /\ game = << >>
    /\ AssetIdle
    /\ DispatchIdle

Start ==
    /\ Cardinality(frames) < MaxPending
    /\ \E out \in {start(engine, frames)} : Operate(out, "start")
    /\ UNCHANGED <<firstRun, game>>

Pause ==
    /\ \E out \in {pause(engine, frames)} : Operate(out, "pause")
    /\ UNCHANGED <<firstRun, game>>

Reset ==
    /\ \E out \in {reset(engine, frames)} : Operate(out, "reset")
    /\ UNCHANGED <<firstRun, game>>

Step ==
    /\ \E rnd \in EngineDraws :
         \E out \in {step(engine, frames, rnd)} : Operate(out, "step")
    /\ UNCHANGED <<firstRun, game>>

\* the browser runs a requested animation frame
TickCallback ==
    /\ \E id \in frames, due \in BOOLEAN, rnd \in EngineDraws :
         \E out \in {tick(engine, frames \ {id}, due, rnd)} : Operate(out, "tick")
    /\ UNCHANGED <<firstRun, game>>

SetSpeed ==
    /\ \E multiplier \in Speeds :
         Operate(Outcome(setSpeed(engine, multiplier), frames, 0, 0), "setSpeed")
    /\ UNCHANGED <<firstRun, game>>

UpdateRiskPosture ==
    /\ \E riskPosture \in RiskPostures :
         Operate(Outcome(updateRiskPosture(engine, riskPosture), frames, 0, 0),
                 "updateRiskPosture")
    /\ UNCHANGED <<firstRun, game>>

UpdateStrategyConfig ==
    /\ \E config \in ConfigUpdates :
         Operate(Outcome(updateStrategyConfig(engine, config), frames, 0, 0),
                 "updateStrategyConfig")
    /\ UNCHANGED <<firstRun, game>>

Next ==
    \/ Start
    \/ Pause
    \/ Reset
    \/ Step
    \/ TickCallback
    \/ SetSpeed
    \/ UpdateRiskPosture
    \/ UpdateStrategyConfig

Spec == Init /\ [][Next]_vars

\* a caller of getState() keeps the SimulationState it was returned
GetState ==
    /\ snapshot' = IF snapshot.taken THEN snapshot
                   ELSE [taken |-> TRUE, live |-> TRUE,
                         original |-> getState(engine), current |-> getState(engine)]
    /\ lastOp' = called("getState", engine.state)
    /\ UNCHANGED <<engine, frames, ui, completions, firstRun, game, assetVars, dispatchVars>>

NextObserver ==
    \/ GetState
    \/ Start
    \/ Pause
    \/ Reset
    \/ Step
    \/ TickCallback

SpecObserver == Init /\ [][NextObserver]_vars

\* reset() after a completed run, whose history is kept for comparison
ReplayReset ==
    /\ \E out \in {reset(engine, frames)} : Operate(out, "reset")
    /\ firstRun' = IF engine.state.is_complete /\ ~firstRun.recorded
                   THEN [recorded |-> TRUE, history |-> engine.state.history]
                   ELSE firstRun
    /\ UNCHANGED game

NextReplay ==
    \/ Step
    \/ ReplayReset

SpecReplay == Init /\ [][NextReplay]_vars

\* an engine constructed with the PID-like feedback strategy on an event one
\* tick longer, so that a tick runs after two results
InitFeedback ==
    /\ engine = constructor(
                    [scenario |-> ScenarioConfig(Horizon + 1, << 40 >>,
                                                 [t \in 1..(Horizon + 1) |-> 10000]),
                     assets |-> << HvacHot, Fleet, Battery >>],
                    Strategy("feedback_control", "pid_like_control", "efficiency", "neutral",
                             <<"balanced_weighting", "highest_headroom">>),
                    "medium")
    /\ frames = {}
    /\ ui = [is_running |-> FALSE, is_complete |-> FALSE]
    /\ completions = 0
    /\ lastOp = called("new", engine.state)
    /\ snapshot = NoSnapshot
    /\ firstRun = NoRun
    /\ game = << >>
    /\ AssetIdle
    /\ DispatchIdle

NextFeedback ==
    \/ Step
    \/ Reset
    \/ SetSpeed
    \/ UpdateRiskPosture

SpecFeedback == InitFeedback /\ [][NextFeedback]_vars

\* ------------------------------------------------ the game specification

\* the scenarios GENERATE_SCENARIO / SET_SCENARIO put into the game state:
\* generateScenario is random, two one-asset events stand for its results
GameScenarios ==
    {[scenario |-> ScenarioConfig(Horizon, << 40 >>, [t \in 1..Horizon |-> 10000]),
      assets |-> << Battery >>],
     [scenario |-> ScenarioConfig(Horizon, << 0 >>, << 9500 >>),
      assets |-> << HvacHot >>]}

\* the difficulty and strategy configuration the setup screen chooses
GameConfigs ==
    {[difficulty |-> "medium", strategyConfig |-> DEFAULT_STRATEGY_CONFIG],
     [difficulty |-> "hard",
      strategyConfig |-> Strategy("greedy_myopic", "max_capacity_now", "capacity",
                                  "opportunity_seeking", <<"batteries_first">>)]}

\* the Math.random() samples of the ticks of the game's engines
GameDraws == {CHOOSE rnd \in EngineDraws : rnd.asset.roll # 0}

\* initialState of the reducer (null is << >>; simulationSpeed 1 is 10
\* tenths), with the engine playAgain dropped and the animation frames that
\* engine still has requested
initialGameState ==
    [screen |-> "welcome",
     scenario |-> << >>,
     gameConfig |-> [difficulty |-> "medium", strategyConfig |-> DEFAULT_STRATEGY_CONFIG],
     simulationState |-> << >>,
     simulationSpeed |-> 10,
     dropped |-> << >>,
     droppedFrames |-> {}]

\* gameReducer, the cases the provider's controls dispatch
gameReducer(state, action) ==
    CASE action.type = "SET_SCREEN" -> [state EXCEPT !.screen = action.screen]
      [] action.type = "SET_CONFIG" -> [state EXCEPT !.gameConfig = action.config]
      [] action.type = "SET_SCENARIO" -> [state EXCEPT !.scenario = action.scenario]
      [] action.type = "UPDATE_SIMULATION" -> [state EXCEPT !.simulationState = action.state]
      [] action.type = "SIMULATION_COMPLETE" ->
           [state EXCEPT !.simulationState = action.state, !.screen = "results"]
      [] action.type = "RESET_GAME" ->
           [initialGameState EXCEPT !.gameConfig = state.gameConfig,
                                    !.dropped = state.dropped,
                                    !.droppedFrames = state.droppedFrames]
      [] OTHER -> state

\* handleUpdate and handleComplete as an engine operation called them
handleCallbacks(state, out) ==
    LET updated == IF out.onUpdate > 0
                   THEN gameReducer(state, [type |-> "UPDATE_SIMULATION",
                                            state |-> getState(out.this)])
                   ELSE state
    IN IF out.onComplete > 0
       THEN gameReducer(updated, [type |-> "SIMULATION_COMPLETE",
                                  state |-> getState(out.this)])
       ELSE updated

\* new SimulationEngine(state.scenario, state.gameConfig.strategyConfig,
\* state.gameConfig.difficulty, handleUpdate, handleComplete, ...)
newEngine(state) ==
    constructor(state.scenario, state.gameConfig.strategyConfig, state.gameConfig.difficulty)

\* the provider after a control: engineRef.current, the frames requested and
\* the game state; the screen is given the flags of simulationState
Provide(this, pending, state) ==
    /\ engine' = this
    /\ frames' = pending
    /\ game' = state
    /\ ui' = IF state.simulationState = << >> THEN << >>
             ELSE flagsOf(state.simulationState)
    /\ UNCHANGED <<completions, lastOp, snapshot, firstRun, assetVars, dispatchVars>>

InitGame ==
    /\ engine = << >>
    /\ frames = {}
    /\ ui = << >>
    /\ completions = 0
    /\ lastOp = << >>
    /\ snapshot = << >>
    /\ firstRun = << >>
    /\ game = initialGameState
    /\ AssetIdle
    /\ DispatchIdle

\* generateNewScenario: dispatch GENERATE_SCENARIO
GenerateScenario ==
    /\ \E scenario \in GameScenarios :
          Provide(engine, frames,
                  gameReducer(game, [type |-> "SET_SCENARIO", scenario |-> scenario]))

\* setDifficulty and setStrategyConfig: dispatch SET_DIFFICULTY and
\* SET_STRATEGY_CONFIG
SetGameConfig ==
    /\ \E config \in GameConfigs :
          Provide(engine, frames,
                  gameReducer(game, [type |-> "SET_CONFIG", config |-> config]))

\* startSimulation
StartSimulation ==
    /\ game.scenario # << >>
    /\ Cardinality(frames) < MaxPending
    /\ \E out \in {start(setSpeed(IF engine = << >> THEN newEngine(game) ELSE engine,
                                  game.simulationSpeed),
                         frames)} :
          Provide(out.this, out.frames, handleCallbacks(game, out))

\* resetSimulation
ResetSimulation ==
    IF engine # << >>
    THEN \E out \in {reset(engine, frames)} :
            Provide(out.this, out.frames, handleCallbacks(game, out))
    ELSE /\ game.scenario # << >>
         /\ Provide(newEngine(game), frames,
                    gameReducer(game, [type |-> "UPDATE_SIMULATION",
                                       state |-> getState(newEngine(game))]))

\* playAgain: engineRef.current = null, RESET_GAME, SET_SCREEN 'setup'; the
\* engine object is no longer referenced and its requested frames stay
\* requested (one dropped engine is followed at a time)
PlayAgain ==
    /\ game.droppedFrames = {}
    /\ Provide(<< >>, frames,
               [gameReducer(gameReducer(game, [type |-> "RESET_GAME"]),
                            [type |-> "SET_SCREEN", screen |-> "setup"])
                   EXCEPT !.dropped = IF frames = {} THEN << >> ELSE engine,
                          !.droppedFrames = frames])

\* the browser runs an animation frame the referenced engine requested
EngineFrame ==
    \E id \in frames \ game.droppedFrames, due \in BOOLEAN, rnd \in GameDraws :
        \E out \in {tick(engine, frames \ {id}, due, rnd)} :
            Provide(out.this, out.frames, handleCallbacks(game, out))

\* the browser runs an animation frame the dropped engine requested
DroppedFrame ==
    \E id \in game.droppedFrames, due \in BOOLEAN, rnd \in GameDraws :
        \E out \in {tick(game.dropped, frames \ {id}, due, rnd)} :
            Provide(engine, out.frames,
                    [handleCallbacks(game, out)
                        EXCEPT !.dropped = out.this,
                               !.droppedFrames = (game.droppedFrames \ {id})
                                                    \cup (out.frames \ (frames \ {id}))])

NextGame ==
    \/ GenerateScenario
    \/ SetGameConfig
    \/ StartSimulation
    \/ ResetSimulation
    \/ PlayAgain
    \/ EngineFrame
    \/ DroppedFrame

SpecGame == InitGame /\ [][NextGame]_vars

\* ----------------------------------------------------------------- claims

\* C1: once an asset's state.dropped is true, every later updateAsset call
\* (any command, any tick index) returns the asset unchanged, still dropped,
\* with powerDelta 0 -- for every asset type.
C1_DroppedIsTerminal ==
    /\ (a_tick > 0 /\ a_prev.state.dropped) =>
          (a_asset = a_prev /\ a_asset.state.dropped /\ a_delta = 0)
    /\ (a_asset # NoCommand /\ a_asset.state.dropped) =>
          \A cmd \in CommandsOrNone(a_asset.type), t \in 0..MaxTick,
             temp \in Temps, rnd \in AssetDraws :
             LET r == updateAsset(a_asset, cmd, t, temp, a_hour, AssetConfig, rnd)
             IN r.asset = a_asset /\ r.powerDelta = 0

\* an asset that dropped during the event was updated again, with a command
C1_Witness ==
    /\ a_tick > 1
    /\ a_asset # NoCommand
    /\ a_prev.state.dropped
    /\ a_cmd.type # "none"
    /\ a_prev.id \in {HvacCooling.id, Ev.id, CiBuildingTired.id}

\* C2: executeComposableStrategy never returns a command for an asset whose
\* state.dropped was already true at the start of the tick, whatever the
\* framework, the subtype (threshold_triggered's maintainPreviousDispatch
\* included), the risk posture and the previously-dispatched set.
C2_NoCommandForDropped ==
    \A i \in 1..Len(d_start) :
        d_start[i].state.dropped => d_start[i].id \notin commandIds(d_commands)

\* a dropped asset was in the previously-dispatched set of a call that
\* returned commands, on the maintainPreviousDispatch path and off it
C2_Witness ==
    /\ d_tick > 0
    /\ d_commands # << >>
    /\ \E i \in 1..Len(d_start) :
          /\ d_start[i].state.dropped
          /\ d_start[i].id \in d_context.previouslyDispatchedAssetIds
          /\ d_context.previouslyDispatchedAssetIds # idsOf(d_start)
    /\ d_strategy.strategyConfig.frameworkSubtype = "threshold_triggered"
    /\ d_strategy.strategyConfig.decisionFramework = "deterministic_policy"
    /\ d_context.previousAchievedKw = <<d_target>>

\* C3: after any sequence of start, pause, step, reset, tick callbacks and
\* configuration updates the history has one entry per applied timestep,
\* entry i is the result of timestep i, and no timestep beyond the
\* scenario's is applied.
C3_TicksInOrder ==
    /\ Len(engine.state.history) = engine.state.current_timestep
    /\ engine.state.current_timestep <= engine.state.scenario.scenario.timesteps
    /\ \A i \in 1..Len(engine.state.history) : engine.state.history[i].timestep = i - 1

\* every timestep of the event applied while two tick loops run
C3_Witness ==
    /\ engine.state.current_timestep = Horizon
    /\ Len(engine.state.history) = Horizon
    /\ Cardinality(frames) = 2
    /\ lastOp.op = "tick"
    /\ lastOp.timestep = Horizon - 1

\* C4: after reset() the engine is the engine its scenario, strategy
\* configuration and difficulty construct: timestep 0, empty history, no
\* penalty, not running, not complete, the scenario's assets, accumulated
\* error 0, every score 0.5, no previously dispatched asset; only the speed
\* set is kept.
C4_ResetRestores ==
    lastOp.op = "reset" =>
        engine = [constructor(engine.state.scenario, engine.strategyConfig, engine.difficulty)
                     EXCEPT !.speedMultiplier = engine.speedMultiplier]

\* reset() called on a running engine that has applied every timestep
C4_Witness ==
    /\ lastOp.op = "reset"
    /\ lastOp.timestep = Horizon
    /\ lastOp.is_running
    /\ engine.state.current_timestep = 0
    /\ engine.previouslyDispatchedAssets = {}
\* C5: step() called while is_running is true leaves current_timestep,
\* assets, history and total_penalty as they were.
C5_StepOnlyWhenNotRunning ==
    [][(lastOp'.op = "step" /\ engine.state.is_running) =>
         /\ engine'.state.current_timestep = engine.state.current_timestep
         /\ engine'.state.assets = engine.state.assets
         /\ engine'.state.history = engine.state.history
         /\ engine'.state.total_penalty = engine.state.total_penalty]_vars

\* C6: after pause() returns, no requested animation frame of the engine is
\* still pending.
C6_PauseCancelsAll == lastOp.op = "pause" => frames = {}

\* C7: is_complete is true exactly when current_timestep has reached the
\* scenario's timesteps.
C7_CompleteAtHorizon ==
    engine.state.is_complete <=>
        engine.state.current_timestep >= engine.state.scenario.scenario.timesteps

\* C8: onComplete is called at most once between construction or reset()
\* and the next reset(), it has been called exactly when the engine is
\* complete, and once it has been called no operation other than reset()
\* applies a timestep or calls it again.
C8_CompletesOnce ==
    /\ [](completions <= 1 /\ (engine.state.is_complete <=> completions = 1))
    /\ [][(completions = 1 /\ lastOp'.op # "reset") =>
            /\ completions' = 1
            /\ engine'.state.history = engine.state.history
            /\ engine'.state.current_timestep = engine.state.current_timestep]_vars

\* a tick callback of a second loop, and a step(), run on a complete engine
C8_Witness ==
    /\ completions = 1
    /\ lastOp.is_complete
    /\ lastOp.op \in {"tick", "step", "start"}
    /\ engine.state.is_complete
    /\ Len(engine.state.history) = Horizon
\* C9: a SimulationState returned by getState() (the value onUpdate and
\* onComplete are handed) is not changed by any later operation: what its
\* holder reads from it stays what it was when it was returned.
C9_SnapshotsAreCopies == snapshot.taken => snapshot.current = snapshot.original

\* C10: a run that is reset after completion and run again under the same
\* strategy configuration, with the same sequence of ticks, completes with
\* the history the first run completed with.
C10_ReplayIdentical ==
    (firstRun.recorded /\ engine.state.is_complete) =>
        engine.state.history = firstRun.history
\* C11: a battery's SOC stays within [soc_reserve, 1] after every
\* updateBatteryResi call, whatever the command (discharge, charge, zero,
\* none), and the energy a call takes from or puts into the battery is at
\* most one tick at p_dis_kw or p_ch_kw.
C11_SocWithinBounds ==
    a_asset.type = "battery_resi" =>
        /\ a_asset.state.soc >= a_asset.params.soc_reserve
        /\ a_asset.state.soc <= Scale
        /\ (a_prev.state.soc - a_asset.state.soc) * a_asset.params.e_kwh
              <= a_asset.params.p_dis_kw * Scale
        /\ (a_asset.state.soc - a_prev.state.soc) * a_asset.params.e_kwh
              <= a_asset.params.p_ch_kw * Scale

\* a discharge above p_dis_kw was requested of a battery with less than a
\* tick of energy above its reserve, which is now at its reserve
C11_Witness ==
    /\ a_asset.type = "battery_resi"
    /\ a_cmd.type = "battery"
    /\ a_cmd.power_kw > a_asset.params.p_dis_kw
    /\ a_prev.state.soc > a_prev.params.soc_reserve
    /\ a_asset.state.soc = a_asset.params.soc_reserve
    /\ a_tick > 1
\* the deadline condition of an EV at a timestep before its departure: the
\* energy p_max_kw can still deliver is at most 1.1 times the energy missing
deadlinePressure(ev, timestep) ==
    /\ timestep < ev.params.t_depart
    /\ 10 * (ev.params.t_depart - timestep) * ev.params.p_max_kw
          <= 11 * (ev.params.e_req_kwh - ev.state.e_kwh)

C13_OverrideChargesAtMax ==
    \A i \in 1..Len(d_start) :
        (/\ d_tick > 0
         /\ d_start[i].type = "ev_resi"
         /\ d_start[i].state.override_active
         /\ d_start[i].state.plugged
         /\ ~d_start[i].state.dropped
         /\ d_tick - 1 < d_start[i].params.t_depart) =>
            /\ d_start[i].id \notin commandIds(d_commands)
            /\ d_assets[i].state.e_kwh =
                  Min(d_start[i].state.e_kwh + d_start[i].params.p_max_kw,
                      d_start[i].params.e_capacity_kwh)
            /\ \A cmd \in CommandsOrNone("ev_resi"), rnd \in AssetDraws :
                  updateAsset(d_start[i], cmd, d_tick - 1, DispatchWeather[d_tick], 14,
                              AssetConfig, rnd).asset.state.e_kwh =
                      Min(d_start[i].state.e_kwh + d_start[i].params.p_max_kw,
                          d_start[i].params.e_capacity_kwh)

\* commands were issued in a tick that an EV dispatched in the tick before
\* started under override
C13_Witness ==
    /\ d_tick > 0
    /\ d_commands # << >>
    /\ \E i \in 1..Len(d_start) :
          /\ d_start[i].type = "ev_resi"
          /\ d_start[i].state.override_active
          /\ d_start[i].state.plugged
          /\ d_tick - 1 < d_start[i].params.t_depart
          /\ d_start[i].id \in d_context.previouslyDispatchedAssetIds
          /\ d_assets[i].state.e_kwh = d_start[i].state.e_kwh + d_start[i].params.p_max_kw
\* C14: after an updateEvResi call at a tick t >= t_depart the EV is dropped
\* and not plugged, and an EV that is dropped and not plugged stays so.
C14_DepartedIsDropped ==
    (a_asset.type = "ev_resi" /\ a_tick > 0) =>
        /\ a_tick - 1 >= a_prev.params.t_depart =>
              (a_asset.state.dropped /\ ~a_asset.state.plugged)
        /\ (a_prev.state.dropped /\ ~a_prev.state.plugged) =>
              (a_asset.state.dropped /\ ~a_asset.state.plugged)

\* a command given to an EV in a tick after the one it departed in
C14_Witness ==
    /\ a_asset.type = "ev_resi"
    /\ a_tick - 1 > a_prev.params.t_depart
    /\ a_cmd.type = "ev"
    /\ a_prev.state.dropped
    /\ a_asset.state.dropped
    /\ ~a_asset.state.plugged
\* C15: a C&I building's fatigue is never negative after a tick; a building
\* whose fatigue exceeds 2 is dropped, and a dropped building stays dropped.
C15_FatigueDropsForGood ==
    a_asset.type = "ci_building" =>
        /\ a_asset.state.fatigue >= 0
        /\ a_asset.state.fatigue > 2 * Scale => a_asset.state.dropped
        /\ a_prev.state.dropped => a_asset.state.dropped

\* a tick after the one in which a shed pushed the fatigue over 2: the
\* building was dropped before the call and still is, whatever the command
C15_Witness ==
    /\ a_asset.type = "ci_building"
    /\ a_asset.state.fatigue > 2 * Scale
    /\ a_prev.state.dropped
    /\ a_asset.state.dropped
    /\ a_cmd.type = "ci_building"
    /\ a_cmd.hvac_shed_kw > 0
\* C16: a C&I building never uses more than max_process_toggles toggles;
\* process_on changes in a tick only if toggles remained and the tick was
\* outside business hours or a toggle had been used before; a change of
\* process_on adds exactly 1 to process_toggles_used and nothing else
\* changes the count.
C16_TogglesBounded ==
    (a_asset.type = "ci_building" /\ a_tick > 0) =>
        LET before == a_prev.state
            after == a_asset.state
            changed == after.process_on # before.process_on
        IN /\ after.process_toggles_used <= a_asset.params.max_process_toggles
           /\ changed =>
                 /\ before.process_toggles_used < a_prev.params.max_process_toggles
                 /\ \/ ~isBusinessHours(a_prev.params, a_tick - 1, a_hour)
                    \/ before.process_toggles_used > 0
           /\ after.process_toggles_used =
                 before.process_toggles_used + (IF changed THEN 1 ELSE 0)

\* every toggle is spent and an honoured command asks for one more: the
\* process stays as it was
C16_Witness ==
    /\ a_asset.type = "ci_building"
    /\ a_tick > 0
    /\ a_prev.state.process_toggles_used = a_prev.params.max_process_toggles
    /\ ~a_prev.state.dropped
    /\ a_cmd.type = "ci_building"
    /\ a_cmd.process_on # a_prev.state.process_on
    /\ a_asset.state.process_on = a_prev.state.process_on
    /\ a_asset.state.process_toggles_used = a_asset.params.max_process_toggles
C18_ZeroTargetNoPenalty ==
    targetOf(engine.state.scenario.scenario) = 0 =>
        /\ engine.previouslyDispatchedAssets = {}
        /\ \A i \in 1..Len(engine.state.history) :
              \A type \in AssetTypes : engine.state.history[i].dispatches_by_type[type] = 0
        /\ engine.state.total_penalty = 0
\* C19: when every asset of the portfolio is dropped or has no available
\* capacity (an empty portfolio included), executeComposableStrategy returns
\* the empty command list, under every framework and subtype.
C19_ZeroCapacityNoCommands ==
    (/\ d_tick > 0
     /\ \A i \in 1..Len(d_start) :
           \/ d_start[i].state.dropped
           \/ getAvailableCapacity(d_start[i], d_tick - 1) <= 0)
        => d_commands = << >>

\* stochastic expected_value called on assets that are in service and have
\* nothing to give
C19_Witness ==
    /\ d_tick > 0
    /\ d_strategy.strategyConfig.decisionFramework = "stochastic"
    /\ d_strategy.strategyConfig.frameworkSubtype = "expected_value"
    /\ \E i \in 1..Len(d_start) : ~d_start[i].state.dropped
    /\ \A i \in 1..Len(d_start) :
          \/ d_start[i].state.dropped
          \/ getAvailableCapacity(d_start[i], d_tick - 1) <= 0
    /\ d_context.previouslyDispatchedAssetIds # {}
    /\ d_commands = << >>
\* C20: a command whose type is not the asset's is rejected: the asset comes
\* out of updateAsset as it would with no command.
C20_MismatchLeavesState ==
    (a_tick > 0 /\ a_cmd \notin CommandsOrNone(a_prev.type)) =>
        \E temp \in Temps, rnd \in AssetDraws :
            a_asset = updateAsset(a_prev, NoCommand, a_tick - 1, temp, a_hour,
                                  AssetConfig, rnd).asset
\* DECISION_FRAMEWORK_INFO[framework].subtypes: the keys
DECISION_FRAMEWORK_INFO ==
    [deterministic_policy |-> {"static_priority", "threshold_triggered", "state_machine",
                               "scenario_tree"},
     greedy_myopic |-> {"max_capacity_now", "min_risk_now", "best_efficiency_now"},
     stochastic |-> {"expected_value", "chance_constrained", "monte_carlo_weighted"},
     feedback_control |-> {"error_correction", "adaptive_weighting", "pid_like_control"}]

\* Validate that a subtype belongs to its framework
isValidSubtypeForFramework(framework, subtype) ==
    subtype \in DECISION_FRAMEWORK_INFO[framework]

\* the last operation ran advanceTimestep past its completion check
tickRan ==
    /\ lastOp # << >>
    /\ lastOp.op \in {"tick", "step", "start"}
    /\ engine.state.current_timestep > lastOp.timestep

\* C21: no tick runs executeComposableStrategy with a frameworkSubtype that
\* is not one of the decisionFramework's or with an empty selectionOrderings
\* list: such a configuration is rejected when it is supplied.
C21_InvalidConfigNeverTicks ==
    tickRan =>
        /\ isValidSubtypeForFramework(engine.strategyConfig.decisionFramework,
                                      engine.strategyConfig.frameworkSubtype)
        /\ engine.strategyConfig.selectionOrderings # << >>

\* C22: every configuration the dispatch engine runs a tick with has
\* between 1 and 3 selection orderings.
C22_OrderingsOneToThree ==
    tickRan =>
        /\ Len(engine.strategyConfig.selectionOrderings) >= 1
        /\ Len(engine.strategyConfig.selectionOrderings) <= 3
\* C23: setSpeed, updateRiskPosture and updateStrategyConfig leave the
\* simulation state (tick index, assets, history, total penalty, flags) and
\* the feedback memory (accumulated error, trust scores, previously
\* dispatched set) as they were, in whatever state they are called.
C23_ControlsKeepState ==
    [][lastOp'.op \in {"setSpeed", "updateRiskPosture", "updateStrategyConfig"} =>
          /\ engine'.state = engine.state
          /\ engine'.accumulatedError = engine.accumulatedError
          /\ engine'.assetPerformanceScores = engine.assetPerformanceScores
          /\ engine'.previouslyDispatchedAssets = engine.previouslyDispatchedAssets
          /\ engine'.animationFrameId = engine.animationFrameId
          /\ frames' = frames]_vars

\* the strategy replaced in the middle of a running event that has
\* dispatched assets and carries an error
C23_Witness ==
    /\ lastOp.op = "updateStrategyConfig"
    /\ lastOp.is_running
    /\ ~lastOp.is_complete
    /\ lastOp.timestep > 0
    /\ engine.state.is_running
    /\ engine.state.current_timestep = lastOp.timestep
    /\ engine.previouslyDispatchedAssets # {}
    /\ engine.accumulatedError # 0
\* (deviation / (target + 0.001))^exponent in ten-thousandths, for a
\* deviation and a target in tenths of a kW and an exponent in tenths
TenThousand == 100 * 100
deviationPower(deviation, target, exponent) ==
    LET n == (deviation * 100 * TenThousand) \div (target * 100 + 1)
    IN IF exponent = 20 THEN (n * n) \div TenThousand
       ELSE IF exponent = 30 THEN (((n * n) \div TenThousand) * n) \div TenThousand
       ELSE (n * (CHOOSE r \in 0..TenThousand :
                      r * r <= n * TenThousand /\ (r + 1) * (r + 1) > n * TenThousand))
               \div TenThousand

\* the recorded penalty of a tick lies between the formula's values for
\* deviations 0.1 kW under and over the recorded one (achieved_kw is
\* recorded to 0.1 kW), times the ratio when the tick over-delivered
penaltyAsStated(result, settings) ==
    LET target == result.target_kw
        deviation == Abs(target - result.achieved_kw)
        low == deviationPower(Max(0, deviation - 1), target, settings.penalty_exponent)
        high == deviationPower(deviation + 1, target, settings.penalty_exponent)
        ratio == settings.over_performance_penalty_ratio
    IN IF result.achieved_kw > target
       THEN /\ result.penalty >= MulP(low, ratio) - 2
            /\ result.penalty <= MulP(high, ratio) + 2
       ELSE IF result.achieved_kw < target
       THEN /\ result.penalty >= low - 2
            /\ result.penalty <= high + 2
       ELSE result.penalty <= high + 2

tickStep ==
    /\ lastOp'.op \in {"tick", "step", "start"}
    /\ engine'.state.current_timestep > engine.state.current_timestep

\* the asset with the id, after the step
assetAfter(id) ==
    engine'.state.assets[CHOOSE i \in 1..Len(engine'.state.assets) :
                             engine'.state.assets[i].id = id]

\* C25 as stated: a tick lowers the trust score of an asset by 0.1 if the
\* asset was dispatched in it and is dropped after it, and raises it by
\* 0.02 otherwise, dispatched or not, within [0, 1].
C25_ScoreRaisedOtherwise ==
    [][tickStep =>
         \A id \in DOMAIN engine.assetPerformanceScores :
            engine'.assetPerformanceScores[id] =
               IF id \in engine'.previouslyDispatchedAssets /\ assetAfter(id).state.dropped
               THEN Max(0, engine.assetPerformanceScores[id] - 100)
               ELSE Min(Scale, engine.assetPerformanceScores[id] + 20)]_vars

\* C25 amended: a tick changes the trust score of the assets it dispatched
\* only: lowered by 0.1 if the asset is dropped after the tick, raised by
\* 0.02 if not, within [0, 1]; the other assets keep their score.
C25_ScoreOfDispatchedOnly ==
    [][tickStep =>
         \A id \in DOMAIN engine.assetPerformanceScores :
            /\ engine'.assetPerformanceScores[id] >= 0
            /\ engine'.assetPerformanceScores[id] <= Scale
            /\ engine'.assetPerformanceScores[id] =
                  IF id \notin engine'.previouslyDispatchedAssets
                  THEN engine.assetPerformanceScores[id]
                  ELSE IF assetAfter(id).state.dropped
                  THEN Max(0, engine.assetPerformanceScores[id] - 100)
                  ELSE Min(Scale, engine.assetPerformanceScores[id] + 20)]_vars

\* after two ticks: the asset the first one dispatched was dropped and has
\* a lowered score, the asset the second one dispatched is in service and
\* has a raised score, and the asset neither dispatched is still at 0.5
C25_Witness ==
    /\ tickRan
    /\ \E a, b, c \in DOMAIN engine.assetPerformanceScores :
          /\ a \notin engine.previouslyDispatchedAssets
          /\ engine.assetPerformanceScores[a] = Scale \div 2 - 100
          /\ b \in engine.previouslyDispatchedAssets
          /\ engine.assetPerformanceScores[b] = Scale \div 2 + 20
          /\ c \notin engine.previouslyDispatchedAssets
          /\ engine.assetPerformanceScores[c] = Scale \div 2
\* C26: updateAsset leaves the asset passed to it as it was: after the call
\* the argument (params, state and nested structures) equals the asset
\* held before the call, for every asset type and command.
C26_ArgumentUntouched ==
    a_tick > 0 =>
        \A temp \in Temps, rnd \in AssetDraws :
            updateAsset(a_prev, a_cmd, a_tick - 1, temp, a_hour, AssetConfig, rnd).arg = a_prev
\* C27: whenever the asset updateAsset returns is dropped, the powerDelta it
\* returns with it is 0, the tick in which the asset drops included.
C27_DroppedGivesNoPower ==
    (a_tick > 0 /\ a_asset.state.dropped) => a_delta = 0

\* the asset of a list with an id
assetOfId(assets, id) == assets[CHOOSE i \in 1..Len(assets) : assets[i].id = id]

\* a synthesised HVAC command: whole degrees, at most 2 either way, up for
\* a cooling home and down for a heating one
hvacCommandOk(asset, command) ==
    /\ command # << >>
    /\ command[1].command.type = "hvac"
    /\ command[1].command.delta_setpoint_f \in {100 * k : k \in -2..2}
    /\ asset.params.mode = "cooling" => command[1].command.delta_setpoint_f >= 0
    /\ asset.params.mode = "heating" => command[1].command.delta_setpoint_f <= 0

\* the intensities of the setup screen's sliders
Intensities == 0..100

commandInRange(asset, command) ==
    \/ command = << >>
    \/ LET c == command[1].command
       IN CASE c.type = "battery" -> c.power_kw >= 0 /\ c.power_kw <= asset.params.p_dis_kw
            [] c.type = "ev" -> c.power_kw >= 0 /\ c.power_kw <= asset.params.p_max_kw
            [] c.type = "fleet" ->
                 c.site_power_cap_kw >= 0 /\ c.site_power_cap_kw <= asset.params.u_site_max_kw
            [] c.type = "ci_building" ->
                 c.hvac_shed_kw >= 0 /\ c.hvac_shed_kw <= asset.params.smax_hvac_kw
            [] OTHER -> TRUE

\* C29: every battery, EV, fleet and C&I command of a tick, and every one
\* that dispatchToTarget (an amount above zero up to the capacity times the
\* intensity's multiplier) or maintainPreviousDispatch (half the capacity,
\* intensity 50) can build for an asset of the scenario with capacity at any
\* intensity in 0..100 under any risk posture, is within the asset's
\* range: power_kw in [0, p_dis_kw] or [0, p_max_kw], site_power_cap_kw in
\* [0, u_site_max_kw], hvac_shed_kw in [0, smax_hvac_kw].  (The capacity is
\* the asset's alone, so the second part is checked once per asset list.)
C29_CommandsInPhysicalRange ==
    /\ \A i \in 1..Len(d_commands) :
          commandInRange(assetOfId(d_start, d_commands[i].asset_id), << d_commands[i] >>)
    /\ (d_tick = 0 /\ d_strategy.strategyConfig = DEFAULT_STRATEGY_CONFIG) =>
          \A i \in 1..Len(d_start) :
              (~d_start[i].state.dropped /\ getAvailableCapacity(d_start[i], 0) > 0) =>
                  \A posture \in DOMAIN RISK_POSTURE_PARAMS :
                      /\ commandInRange(d_start[i],
                             createDispatchCommand(d_start[i],
                                 getAvailableCapacity(d_start[i], 0) \div 2,
                                 getRiskParams(posture), DefaultIntensity))
                      /\ \A intensity \in Intensities :
                           \A amount \in 1..MulP(getAvailableCapacity(d_start[i], 0),
                                                 Scale \div 2 + (intensity * 10) \div 2) :
                               commandInRange(d_start[i],
                                   createDispatchCommand(d_start[i], amount,
                                       getRiskParams(posture), intensity))

\* a tick commanded a battery whose charge is above soc_reserve but under
\* the reserve the posture keeps to 0 kW, and another asset within its range
C29_Witness ==
    /\ d_tick > 0
    /\ \E i \in 1..Len(d_commands) :
          /\ d_commands[i].command.type = "battery"
          /\ d_commands[i].command.power_kw = 0
          /\ LET bat == assetOfId(d_start, d_commands[i].asset_id)
             IN bat.state.soc > bat.params.soc_reserve
    /\ \E i \in 1..Len(d_commands) :
          /\ d_commands[i].command.type \in {"ev", "fleet", "ci_building"}
          /\ commandInRange(assetOfId(d_start, d_commands[i].asset_id), << d_commands[i] >>)

\* the frameworks executeComposableStrategy hands to feedbackControlDispatch
runsFeedbackControl(strategyConfig) ==
    strategyConfig.decisionFramework \notin
        {"deterministic_policy", "greedy_myopic", "stochastic"}

\* the subtypes of feedback_control
FeedbackSubtypes == DECISION_FRAMEWORK_INFO["feedback_control"]

\* C30: under feedback_control the target given to dispatchToTarget is
\* within [0, 2 x targetKw]: in every tick dispatched, and for the
\* scenario's 6.0 kW target under each of the three subtypes, each objective
\* and posture of the run, every previous achieved value from 0 to twice
\* the target (and none) and every accumulated error within its clamp of
\* 5 x target either way.  (The target does not depend on the assets, so
\* the second part is checked on the run without assets.)
C30_FeedbackTargetClamped ==
    /\ (d_tick > 0 /\ runsFeedbackControl(d_strategy.strategyConfig)) =>
          feedbackTarget(contextOf(d_start, d_tick - 1, d_context)) \in 0..(2 * d_target)
    /\ (d_tick = 0 /\ d_assets = << >> /\ d_target <= 100) =>
          \A subtype \in FeedbackSubtypes,
             achieved \in {<< >>} \cup {<< a >> : a \in 0..(2 * d_target)},
             error \in (-(5 * d_target))..(5 * d_target) :
              feedbackTarget(
                  [targetKw |-> d_target, currentTimestep |-> 0,
                   strategyConfig |-> [d_strategy.strategyConfig
                                          EXCEPT !.frameworkSubtype = subtype],
                   previousAchievedKw |-> achieved, accumulatedError |-> error])
                  \in 0..(2 * d_target)

\* a feedback_control tick after a tick that achieved nothing: the
\* correction asks for more than twice the target and the clamp holds it
C30_Witness ==
    /\ d_tick > 0
    /\ d_strategy.strategyConfig.decisionFramework = "feedback_control"
    /\ d_context.previousAchievedKw = << 0 >>
    /\ feedbackCorrectedTarget(contextOf(d_start, d_tick - 1, d_context)) > 2 * d_target
    /\ feedbackTarget(contextOf(d_start, d_tick - 1, d_context)) = 2 * d_target

\* the StrategyContext of the last executeComposableStrategy call
lastContext == contextOf(d_start, d_tick - 1, d_context)

\* the ids of a list of scored assets
scoredIds(scored) == {scored[i].asset.id : i \in 1..Len(scored)}

\* the scored assets of a list that were not dispatched the tick before
newlySelected(scored, context) ==
    SelectSeq(scored, LAMBDA sa : sa.asset.id \notin context.previouslyDispatchedAssetIds)

\* max(1, ceil(eligible count x ramp fraction))
rampTargetCount(context) ==
    Max(1, (Len(scoreAvailableAssets(context)) * calculateRampUpPercentage(context)
            + Scale - 1) \div Scale)

\* C31: in every tick, each asset dispatched the tick before that is still
\* undropped with capacity above zero is selected; the assets not dispatched
\* the tick before that are selected come in descending score order, none
\* left out scores higher than one taken, one is taken only if those kept
\* for continuity and those taken before it number fewer than
\* max(1, ceil(eligible x ramp)), and none is left out while they do.
C31_RampKeepsPrevious ==
    d_tick > 0 =>
        LET eligible == scoreAvailableAssets(lastContext)
            selected == selectAndOrderAssets(lastContext)
            kept == Len(selected) - Len(newlySelected(selected, lastContext))
            added == newlySelected(selected, lastContext)
            others == newlySelected(eligible, lastContext)
        IN /\ \A i \in 1..Len(eligible) :
                 eligible[i].asset.id \in d_context.previouslyDispatchedAssetIds
                     => eligible[i].asset.id \in scoredIds(selected)
           /\ scoredIds(selected) \subseteq scoredIds(eligible)
           /\ \A i \in 1..Len(added) :
                 /\ kept + i <= rampTargetCount(lastContext)
                 /\ i > 1 => added[i - 1].score >= added[i].score
                 /\ \A j \in 1..Len(others) :
                      others[j].asset.id \notin scoredIds(added)
                          => others[j].score <= added[i].score
           /\ Len(added) < Len(others) => kept + Len(added) >= rampTargetCount(lastContext)

\* a tick that keeps a previously dispatched asset and leaves out an
\* eligible asset that scores higher
C31_Witness ==
    /\ d_tick > 0
    /\ LET eligible == scoreAvailableAssets(lastContext)
           selected == selectAndOrderAssets(lastContext)
       IN \E i \in 1..Len(selected), j \in 1..Len(eligible) :
              /\ selected[i].asset.id \in d_context.previouslyDispatchedAssetIds
              /\ eligible[j].asset.id \notin scoredIds(selected)
              /\ eligible[j].score > selected[i].score

\* a tick early in the ramp that takes one asset not dispatched before and
\* leaves another out
C31_WitnessQuota ==
    /\ d_tick > 0
    /\ LET eligible == scoreAvailableAssets(lastContext)
           selected == selectAndOrderAssets(lastContext)
       IN /\ Len(newlySelected(selected, lastContext)) > 0
          /\ Len(newlySelected(selected, lastContext))
                < Len(newlySelected(eligible, lastContext))

\* C32: a deterministic_policy / threshold_triggered tick with a previous
\* result re-commands the previously dispatched assets when the previous
\* achieved power is within 5% of the target either way
\* (|target - achieved| < 0.05 x target), and dispatches to the
\* objective-adjusted target otherwise.
C32_FreezeWithinFivePercent ==
    (/\ d_tick > 0
     /\ d_strategy.strategyConfig.decisionFramework = "deterministic_policy"
     /\ d_strategy.strategyConfig.frameworkSubtype = "threshold_triggered"
     /\ d_context.previousAchievedKw # << >>) =>
        d_commands =
            IF 20 * Abs(d_target - d_context.previousAchievedKw[1]) < d_target
            THEN maintainPreviousDispatch(lastContext, selectAndOrderAssets(lastContext))
            ELSE dispatchToTarget(selectAndOrderAssets(lastContext),
                                  adjustTargetForObjective(lastContext, d_target),
                                  lastContext,
                                  getRiskParams(d_strategy.strategyConfig.riskPosture))

\* the accumulated error of the first n results: each error added once,
\* clamped to 5 x target either way after each
RECURSIVE errorsCountedOnce(_, _, _)
errorsCountedOnce(history, n, targetKw) ==
    IF n = 0 THEN 0
    ELSE Max(-targetKw * 5,
             Min(targetKw * 5,
                 errorsCountedOnce(history, n - 1, targetKw)
                 + (targetKw - history[n].achieved_kw)))

\* the target feedbackControlDispatch computes, before its clamp, in the
\* tick the engine runs next
nextCorrectedTarget ==
    feedbackCorrectedTarget(
        engineContext(engine,
                      updateAccumulatedError(engine.accumulatedError,
                                             targetOf(engine.state.scenario.scenario),
                                             previousAchievedKw(engine.state.history))))

\* C33: under pid_like_control, a tick that follows two results computes,
\* before the clamp, target + 1.2 e + 0.1 I + 0.3 D with e the last error
\* (target - achieved), I the clamped sum of the errors so far, each counted
\* once, and D the last error less the one before it.
C33_PidTerms ==
    (/\ engine # << >>
     /\ engine.strategyConfig.frameworkSubtype = "pid_like_control"
     /\ Len(engine.state.history) >= 2
     /\ engine.state.current_timestep < engine.state.scenario.scenario.timesteps) =>
        LET history == engine.state.history
            n == Len(history)
            targetKw == targetOf(engine.state.scenario.scenario)
            e == targetKw - history[n].achieved_kw
            I == errorsCountedOnce(history, n, targetKw)
            D == e - (targetKw - history[n - 1].achieved_kw)
        IN nextCorrectedTarget = targetKw + (12 * e + I + 3 * D) \div 10

\* a context with the efficiency objective, whose scaled target is the
\* nominal one
withoutReserve(context) == [context EXCEPT !.strategyConfig.objective = "efficiency"]

\* C34: the target of a tick is derived from the objective-scaled target,
\* the framework's refinement applied on top of it: in a feedback_control
\* tick with a previous result whose objective scales the nominal target,
\* the target before the clamp is not the one the same tick computes
\* without the scaling.
C34_ObjectiveScalingKept ==
    (/\ d_tick > 0
     /\ runsFeedbackControl(d_strategy.strategyConfig)
     /\ d_context.previousAchievedKw # << >>
     /\ adjustTargetForObjective(lastContext, d_target) # d_target) =>
        feedbackCorrectedTarget(lastContext)
            # feedbackCorrectedTarget(withoutReserve(lastContext))

\* C35: an asset that is given no command in a tick behaves as by default
\* in it: a home regulates to pref_setpoint_f, a battery keeps its charge,
\* a C&I building sheds 0 kW.
C35_NoCommandIsDefault ==
    (a_tick > 0 /\ a_cmd = NoCommand /\ ~a_prev.state.dropped) =>
        CASE a_asset.type = "hvac_resi" ->
               a_asset.state.setpoint_f = a_asset.params.pref_setpoint_f
          [] a_asset.type = "battery_resi" -> a_asset.state.soc = a_prev.state.soc
          [] a_asset.type = "ci_building" -> a_asset.state.hvac_shed_kw = 0
          [] OTHER -> TRUE

\* noncompliance rolls that reject a command (Math.random() < probability)
RejectingRolls == {0, AssetConfig.noncompliance.probability - 1}

\* C36: whatever the asset, its state, the command of its type, the
\* weather and the drift and noise draws, a tick whose noncompliance roll
\* rejects the command returns the asset and the power delta of the same
\* tick without a command.
C36_RejectedIsNoCommand ==
    a_tick < MaxTick =>
        \A cmd \in CommandsFor(a_asset.type), temp \in Temps, rnd \in AssetDraws,
           roll \in RejectingRolls :
            updateAsset(a_asset, cmd, a_tick, temp, a_hour, AssetConfig,
                        [rnd EXCEPT !.roll = roll])
                = updateAsset(a_asset, NoCommand, a_tick, temp, a_hour, AssetConfig,
                              [rnd EXCEPT !.roll = roll])

\* the last tick had a command that its roll rejected: the asset is as the
\* tick without a command leaves it, and not as the honored command would
C36_Witness ==
    /\ a_tick > 0
    /\ a_cmd # NoCommand
    /\ \E temp \in Temps, rnd \in AssetDraws :
          /\ rollNoncompliance(AssetConfig.noncompliance.probability, rnd.roll)
          /\ a_asset = updateAsset(a_prev, a_cmd, a_tick - 1, temp, a_hour, AssetConfig,
                                   rnd).asset
          /\ a_asset = updateAsset(a_prev, NoCommand, a_tick - 1, temp, a_hour, AssetConfig,
                                   rnd).asset
          /\ a_asset # updateAsset(a_prev, a_cmd, a_tick - 1, temp, a_hour, AssetConfig,
                                   [rnd EXCEPT !.roll = Scale - 1]).asset

\* the energy each vehicle of a site gained between two states of the site
\* (0.1 kW x tick: the power it was allocated, unless its capacity cut it)
gained(before, after) ==
    [i \in 1..Len(before.params.vehicles) |->
        after.state.vehicle_state[i].e_kwh - before.state.vehicle_state[i].e_kwh]

\* C37: whatever the fleet site's state, the command, and the draws, a tick
\* allocates its vehicles at most the site cap in total (the commanded cap
\* within [0, u_site_max_kw] when the command is honored, u_site_max_kw
\* otherwise), each at most its p_max_kw and only if it is plugged, under
\* e_req_kwh and before its departure tick, and leaves every vehicle's
\* e_kwh within e_capacity_kwh.
C37_FleetWithinSiteCap ==
    (a_tick < MaxTick /\ a_asset.type = "fleet_site" /\ ~a_asset.state.dropped) =>
        \A cmd \in CommandsOrNone("fleet_site"), rnd \in AssetDraws :
            LET after == updateAsset(a_asset, cmd, a_tick, 10000, a_hour, AssetConfig,
                                     rnd).asset
                vehicles == a_asset.params.vehicles
                n == Len(vehicles)
                cap == IF cmd # NoCommand
                          /\ rnd.roll >= AssetConfig.noncompliance.probability
                       THEN Max(0, Min(cmd.site_power_cap_kw, a_asset.params.u_site_max_kw))
                       ELSE a_asset.params.u_site_max_kw
            IN /\ SumTo(gained(a_asset, after), n) <= cap
               /\ \A i \in 1..n :
                     /\ gained(a_asset, after)[i] >= 0
                     /\ gained(a_asset, after)[i] <= vehicles[i].p_max_kw
                     /\ gained(a_asset, after)[i] > 0 =>
                           /\ after.state.vehicle_state[i].plugged
                           /\ a_asset.state.vehicle_state[i].e_kwh < vehicles[i].e_req_kwh
                           /\ a_tick < vehicles[i].t_depart
                     /\ after.state.vehicle_state[i].e_kwh <= vehicles[i].e_capacity_kwh

\* a tick under a cap of 12.0 kW in which two vehicles charged and shared
\* all of the cap but the rounding
C37_Witness ==
    /\ a_tick > 0
    /\ a_asset.type = "fleet_site"
    /\ a_cmd # NoCommand
    /\ a_cmd.site_power_cap_kw = 120
    /\ \A i \in 1..Len(a_asset.params.vehicles) : gained(a_prev, a_asset)[i] > 0
    /\ SumTo(gained(a_prev, a_asset), Len(a_asset.params.vehicles)) \in 118..120

\* C38: a cooling home with comfort_max_f 78 that starts at 75 degF under
\* 90 degF outdoors and is commanded +2 degF on every tick is dropped
\* exactly from the tick its tin_f is above 78, that tick comes, and it is
\* dropped on every tick after it.
C38_HvacDropsForGood ==
    /\ [](a_asset.state.dropped <=> a_asset.state.tin_f > a_asset.params.comfort_max_f)
    /\ <>[](a_asset.state.dropped)

\* the tick in which the home, its command honored, crosses 78 degF
C38_Witness ==
    /\ a_asset.id = 16
    /\ ~a_prev.state.dropped
    /\ a_prev.state.setpoint_f = a_prev.params.pref_setpoint_f + 200
    /\ a_prev.state.tin_f <= a_prev.params.comfort_max_f
    /\ a_asset.state.tin_f > a_asset.params.comfort_max_f
    /\ a_asset.state.dropped


\* an EV that is plugged at tick 0 and that p_max_kw on every tick up to its
\* departure would charge to e_req_kwh
chargeable(ev) ==
    /\ ev.type = "ev_resi"
    /\ ev.state.plugged /\ ~ev.state.dropped
    /\ ev.params.e_req_kwh <= ev.params.e_capacity_kwh
    /\ ev.params.p_max_kw * ev.params.t_depart >= ev.params.e_req_kwh - ev.state.e_kwh

\* C39: an EV that was plugged at a tick from which charging at p_max_kw for
\* all remaining ticks delivers e_req_kwh - e_kwh has e_kwh >= e_req_kwh
\* after the last tick before its departure, whatever commands it was given
C39_DeadlineOverrideDelivers ==
    (/\ a_asset # NoCommand
     /\ \E ev \in AssetCatalog : ev.id = a_asset.id /\ chargeable(ev)
     /\ a_tick = a_asset.params.t_depart)
        => a_asset.state.e_kwh >= a_asset.params.e_req_kwh


\* C40: startSimulation and resetSimulation leave an engine built from the
\* scenario, difficulty and strategy configuration the game state holds, and
\* an animation frame of an engine playAgain dropped changes neither the
\* screen nor simulationState
C40_BuiltFromGameState ==
    [][(StartSimulation \/ ResetSimulation) =>
          /\ engine'.state.scenario = game'.scenario
          /\ engine'.difficulty = game'.gameConfig.difficulty
          /\ engine'.strategyConfig = game'.gameConfig.strategyConfig]_vars

C40_DroppedEngineSilent ==
    [][DroppedFrame =>
          /\ game'.screen = game.screen
          /\ game'.simulationState = game.simulationState]_vars

C40_EngineMatchesGame == C40_BuiltFromGameState /\ C40_DroppedEngineSilent

====
